---------------------------- MODULE Spec2Model ----------------------------
(* Model of the data-mesh synchronization core:                            *)
(*   PatternGenerator (src/src/core/pattern.ts),                           *)
(*   MeshNode         (src/unnamed/part_002, core/mesh-node.ts),           *)
(*   MeshNetwork      (src/unnamed/part_007, core/mesh-network.ts).        *)
(*                                                                         *)
(* The program is single-threaded and synchronous, so every public call    *)
(* is one action.  A call is evaluated by operators over a "world" record  *)
(* [objs, nodes, trace]: objs is the heap of MeshNode objects, nodes is    *)
(* the MeshNetwork registry (a JS Map, kept in insertion order) and trace  *)
(* is the ordered list of everything the call did (calls entered and       *)
(* left, events emitted), which is what listeners and spies observe.       *)
EXTENDS Integers, Sequences, FiniteSets, TLC

(* ------------------------------ bounds -------------------------------- *)
MaxNodes == 2
MaxPeers == 3
MaxStandalone == 1
MaxStep == 2
MaxListeners == 1
HopLimit == 2
MaxSent == 3
MaxLiveStep == 4
MaxSeed == 10
MaxGenStep == 4
MaxLog == 3

(* ------------------------------ inputs -------------------------------- *)
NodeIds == <<"a", "b", "c", "d">>
Configs == {<<7, 100>>, <<5, 2>>}
Payloads == {0, HopLimit}
ExternalSenders == {"p"}
Corrupt == 9
Seeds == 1..MaxSeed
BadConfigs == {<<7, 0>>, <<7, -2>>}
EmptyId == ""
Intervals == {2, 3, 100}

(* objs, nodes, trace: the mesh (see above).                               *)
(* sent, seen: what an observer of the mesh has recorded so far: the      *)
(*   broadcast calls made, and the steps each node accepted or was asked  *)
(*   to sync to.                                                          *)
(* gens, call: PatternGenerator objects used on their own, and the last   *)
(*   call made on one of them.                                            *)
(* observer, reply: a MeshObserver, and what the last call made on it     *)
(*   emitted and returned.                                                *)
VARIABLES objs, nodes, trace, sent, seen, gens, call, observer, reply

vars == <<objs, nodes, trace, sent, seen, gens, call, observer, reply>>

mesh == <<objs, nodes, trace>>

history == <<sent, seen>>

generators == <<gens, call>>

monitoring == <<observer, reply>>

(* ------------------------- PatternGenerator --------------------------- *)
PatternGenerator(seed, phaseResetInterval) ==
    [seed |-> seed, phaseResetInterval |-> phaseResetInterval, cache |-> << >>]

(* cache.set that keeps the newest entry only *)
CachePutLatest(cache, step, value) ==
    [k \in {step} |-> value]

(* cache.set under the key after the step *)
CachePutShifted(cache, step, value) ==
    [k \in DOMAIN cache \cup {step + 1} |->
        IF k = step + 1 THEN value ELSE cache[k]]

(* cache.set that overwrites every entry *)
CachePutAll(cache, step, value) ==
    [k \in DOMAIN cache \cup {step} |-> value]

(* this.cache.set(step, value) *)
CachePut(cache, step, value) ==
    [k \in DOMAIN cache \cup {step} |-> IF k = step THEN value ELSE cache[k]]

(* The sum String(num).split('').reduce(...) computes for an integer      *)
(* num >= 0: the sum of its decimal digits.                               *)
RECURSIVE DigitSum(_)
DigitSum(num) ==
    IF num < 10 THEN num ELSE (num % 10) + DigitSum(num \div 10)

RECURSIVE collapseDigits(_)
RECURSIVE computeValue(_, _)

(* collapseDigits that sums the digits once *)
collapseDigitsOnce(num) == DigitSum(num)

collapseDigits(num) ==
    LET sum == DigitSum(num)
    IN  IF sum > 9 THEN collapseDigits(sum) ELSE sum

(* computeValue that resets at step 0 only *)
computeValueNoReset(g, step) ==
    IF step \in DOMAIN g.cache
    THEN [value |-> g.cache[step], pattern |-> g, work |-> 0]
    ELSE IF step = 0
    THEN [value |-> g.seed,
          pattern |-> [g EXCEPT !.cache = CachePut(@, step, g.seed)],
          work |-> 0]
    ELSE LET previous == computeValue(g, step - 1)
             value == collapseDigits(previous.value * g.seed)
         IN  [value |-> value,
              pattern |-> [previous.pattern EXCEPT
                              !.cache = CachePut(@, step, value)],
              work |-> previous.work + 1]

(* computeValue that adds the seed to the previous value *)
computeValueSum(g, step) ==
    IF step \in DOMAIN g.cache
    THEN [value |-> g.cache[step], pattern |-> g, work |-> 0]
    ELSE IF step % g.phaseResetInterval = 0
    THEN [value |-> g.seed,
          pattern |-> [g EXCEPT !.cache = CachePut(@, step, g.seed)],
          work |-> 0]
    ELSE LET previous == computeValue(g, step - 1)
             value == collapseDigits(previous.value + g.seed)
         IN  [value |-> value,
              pattern |-> [previous.pattern EXCEPT
                              !.cache = CachePut(@, step, value)],
              work |-> previous.work + 1]

(* computeValue that resets one step late: every interval + 1 steps *)
computeValueLongPeriod(g, step) ==
    IF step \in DOMAIN g.cache
    THEN [value |-> g.cache[step], pattern |-> g, work |-> 0]
    ELSE IF step % (g.phaseResetInterval + 1) = 0
    THEN [value |-> g.seed,
          pattern |-> [g EXCEPT !.cache = CachePut(@, step, g.seed)],
          work |-> 0]
    ELSE LET previous == computeValue(g, step - 1)
             value == collapseDigits(previous.value * g.seed)
         IN  [value |-> value,
              pattern |-> [previous.pattern EXCEPT
                              !.cache = CachePut(@, step, value)],
              work |-> previous.work + 1]

(* computeValue that caches the previous value under the step *)
computeValueCachePrevious(g, step) ==
    IF step \in DOMAIN g.cache
    THEN [value |-> g.cache[step], pattern |-> g, work |-> 0]
    ELSE IF step % g.phaseResetInterval = 0
    THEN [value |-> g.seed,
          pattern |-> [g EXCEPT !.cache = CachePut(@, step, g.seed)],
          work |-> 0]
    ELSE LET previous == computeValue(g, step - 1)
             value == collapseDigits(previous.value * g.seed)
         IN  [value |-> value,
              pattern |-> [previous.pattern EXCEPT
                              !.cache = CachePut(@, step, previous.value)],
              work |-> previous.work + 1]

(* computeValue that never reads the cache *)
computeValueUncached(g, step) ==
    IF step % g.phaseResetInterval = 0
    THEN [value |-> g.seed,
          pattern |-> [g EXCEPT !.cache = CachePut(@, step, g.seed)],
          work |-> 0]
    ELSE LET previous == computeValue(g, step - 1)
             value == collapseDigits(previous.value * g.seed)
         IN  [value |-> value,
              pattern |-> [previous.pattern EXCEPT
                              !.cache = CachePut(@, step, value)],
              work |-> previous.work + 1]

(* PatternGenerator.computeValue(step): the value returned, the generator *)
(* with the cache as the call leaves it, and the number of collapseDigits *)
(* calls the call and its recursive calls made.                           *)
computeValue(g, step) ==
    IF step \in DOMAIN g.cache
    THEN [value |-> g.cache[step], pattern |-> g, work |-> 0]
    ELSE IF step % g.phaseResetInterval = 0
    THEN [value |-> g.seed,
          pattern |-> [g EXCEPT !.cache = CachePut(@, step, g.seed)],
          work |-> 0]
    ELSE LET previous == computeValue(g, step - 1)
             value == collapseDigits(previous.value * g.seed)
         IN  [value |-> value,
              pattern |-> [previous.pattern EXCEPT
                              !.cache = CachePut(@, step, value)],
              work |-> previous.work + 1]

(* ------------------------------ MeshNode ------------------------------ *)
(* No listener that changes the registry is registered on the node. *)
NoListener ==
    [op |-> "none", nodeId |-> "", seed |-> 0, phaseResetInterval |-> 0]

MeshNode(nodeId, seed, phaseResetInterval, networked) ==
    [nodeId |-> nodeId,
     pattern |-> PatternGenerator(seed, phaseResetInterval),
     globalStep |-> 0,
     networked |-> networked,
     replyListeners |-> 0,
     registryListener |-> NoListener]

NoMsg == [senderId |-> "", globalStep |-> -1, patternValue |-> -1, data |-> -1]

Event(kind, w, n, msg, val) ==
    [kind |-> kind, node |-> n, msg |-> msg, val |-> val,
     step |-> w.objs[n].globalStep]

Log(w, kind, n, msg, val) ==
    [w EXCEPT !.trace = Append(@, Event(kind, w, n, msg, val))]

SetPattern(w, n, g) == [w EXCEPT !.objs[n].pattern = g]

(* sync without the forward-only test *)
syncAnywhere(w, n, targetStep) ==
    LET w1 == Log(w, "enter_sync", n, NoMsg, targetStep)
        w2 == IF targetStep # w1.objs[n].globalStep
              THEN Log([w1 EXCEPT !.objs[n].globalStep = targetStep],
                       "emit_sync", n, NoMsg, targetStep)
              ELSE w1
    IN  Log(w2, "exit_sync", n, NoMsg, targetStep)

(* sync with >= for > *)
syncAtLeast(w, n, targetStep) ==
    LET w1 == Log(w, "enter_sync", n, NoMsg, targetStep)
        w2 == IF targetStep >= w1.objs[n].globalStep
              THEN Log([w1 EXCEPT !.objs[n].globalStep = targetStep],
                       "emit_sync", n, NoMsg, targetStep)
              ELSE w1
    IN  Log(w2, "exit_sync", n, NoMsg, targetStep)

(* sync that moves one step towards a higher target *)
syncOneAhead(w, n, targetStep) ==
    LET w1 == Log(w, "enter_sync", n, NoMsg, targetStep)
        w2 == IF targetStep > w1.objs[n].globalStep
              THEN Log([w1 EXCEPT !.objs[n].globalStep = @ + 1],
                       "emit_sync", n, NoMsg, targetStep)
              ELSE w1
    IN  Log(w2, "exit_sync", n, NoMsg, targetStep)

(* MeshNode.sync(targetStep) *)
sync(w, n, targetStep) ==
    LET w1 == Log(w, "enter_sync", n, NoMsg, targetStep)
        w2 == IF targetStep > w1.objs[n].globalStep
              THEN Log([w1 EXCEPT !.objs[n].globalStep = targetStep],
                       "emit_sync", n, NoMsg, targetStep)
              ELSE w1
    IN  Log(w2, "exit_sync", n, NoMsg, targetStep)

(* incrementStep adding 2 *)
incrementStepTwice(w, n) ==
    [w EXCEPT !.objs[n].globalStep = @ + 2]

(* MeshNode.incrementStep() *)
incrementStep(w, n) ==
    [w EXCEPT !.objs[n].globalStep = @ + 1]

(* ------------------------- the registry (a Map) ------------------------ *)
HasKey(map, key) == \E i \in 1..Len(map) : map[i].nodeId = key

(* Map.set that adds an entry even when the key already has one *)
MapSetAppend(map, key, node) ==
    Append(map, [nodeId |-> key, node |-> node])

(* Map.set that keeps the entry a key already has *)
MapSetKeep(map, key, node) ==
    IF HasKey(map, key)
    THEN map
    ELSE Append(map, [nodeId |-> key, node |-> node])

(* Map.delete that empties the map *)
MapDeleteAll(map, key) ==
    IF HasKey(map, key) THEN << >> ELSE map

MapSet(map, key, node) ==
    IF HasKey(map, key)
    THEN [i \in 1..Len(map) |->
             IF map[i].nodeId = key THEN [nodeId |-> key, node |-> node]
             ELSE map[i]]
    ELSE Append(map, [nodeId |-> key, node |-> node])

MapDelete(map, key) ==
    LET Keep(e) == e.nodeId # key
    IN  SelectSeq(map, Keep)

MapGet(map, key) ==
    IF HasKey(map, key)
    THEN (CHOOSE i \in 1..Len(map) : map[i].nodeId = key)
    ELSE 0

(* MeshNetwork.getNode(nodeId) on a registry: the node object registered  *)
(* under the id, 0 for undefined.                                         *)
getNode(map, nodeId) ==
    IF HasKey(map, nodeId) THEN map[MapGet(map, nodeId)].node ELSE 0

(* Map.prototype.delete while the map is being iterated: the entry's key  *)
(* and value are set to empty and the entry keeps its place, so that a    *)
(* running forEach passes over it; the entry is dropped when the call     *)
(* that deleted it has returned to the caller outside the core.           *)
Empty == [nodeId |-> "", node |-> 0]

MapDeleteInPlace(map, key) ==
    [i \in 1..Len(map) |-> IF map[i].nodeId = key THEN Empty ELSE map[i]]

MapEntries(map) ==
    LET Live(e) == e # Empty
    IN  SelectSeq(map, Live)

(* MeshNetwork.createNode(config), called from a listener.  The Network's *)
(* subscription to the new node is its networked flag.                    *)
NetworkCreateNode(w, nodeId, seed, phaseResetInterval) ==
    LET n == Len(w.objs) + 1
        w1 == [w EXCEPT
                 !.objs = Append(@, MeshNode(nodeId, seed, phaseResetInterval,
                                             TRUE)),
                 !.nodes = MapSet(@, nodeId, n)]
    IN  Log(w1, "createNode", n, NoMsg, 0)

(* MeshNetwork.removeNode(nodeId), called from a listener. *)
NetworkRemoveNode(w, nodeId) ==
    IF HasKey(w.nodes, nodeId)
    THEN Log([w EXCEPT !.nodes = MapDeleteInPlace(@, nodeId)],
             "removeNode", getNode(w.nodes, nodeId), NoMsg, 0)
    ELSE w

(* An onMessage listener of node n that changes the registry the first    *)
(* time it is called (it registers a node or removes an id) and does      *)
(* nothing from then on.                                                  *)
RegistryListener(w, n) ==
    LET l == w.objs[n].registryListener
        w1 == [w EXCEPT !.objs[n].registryListener.op = "done"]
    IN  IF l.op = "createNode"
        THEN NetworkCreateNode(w1, l.nodeId, l.seed, l.phaseResetInterval)
        ELSE IF l.op = "removeNode"
        THEN NetworkRemoveNode(w1, l.nodeId)
        ELSE w

RECURSIVE broadcast(_, _, _)
RECURSIVE receive(_, _, _, _)
RECURSIVE NetworkBroadcast(_, _, _, _)
RECURSIVE ReplyListeners(_, _, _, _)

(* broadcast that increments between building the message and emitting it *)
broadcastIncrementBeforeEmit(w, n, data) ==
    LET w1 == Log(w, "enter_broadcast", n, NoMsg, data)
        cv == computeValue(w1.objs[n].pattern, w1.objs[n].globalStep)
        message == [senderId |-> w1.objs[n].nodeId,
                    globalStep |-> w1.objs[n].globalStep,
                    patternValue |-> cv.value,
                    data |-> data]
        w2 == Log(incrementStep(SetPattern(w1, n, cv.pattern), n),
                  "emit_broadcast", n, message, 0)
        w3 == IF w2.objs[n].networked
              THEN NetworkBroadcast(w2, message, n, 1)
              ELSE w2
    IN  Log(w3, "exit_broadcast", n, message, 0)

(* broadcast that increments before it builds the message *)
broadcastIncrementFirst(w, n, data) ==
    LET w1 == incrementStep(Log(w, "enter_broadcast", n, NoMsg, data), n)
        cv == computeValue(w1.objs[n].pattern, w1.objs[n].globalStep)
        message == [senderId |-> w1.objs[n].nodeId,
                    globalStep |-> w1.objs[n].globalStep,
                    patternValue |-> cv.value,
                    data |-> data]
        w2 == Log(SetPattern(w1, n, cv.pattern), "emit_broadcast", n, message, 0)
        w3 == IF w2.objs[n].networked
              THEN NetworkBroadcast(w2, message, n, 1)
              ELSE w2
    IN  Log(w3, "exit_broadcast", n, message, 0)

(* MeshNode.broadcast: build the message, emit 'broadcast' (the Network's  *)
(* subscription, when the node was made by createNode, fans it out), then  *)
(* incrementStep.                                                          *)
broadcast(w, n, data) ==
    LET w1 == Log(w, "enter_broadcast", n, NoMsg, data)
        cv == computeValue(w1.objs[n].pattern, w1.objs[n].globalStep)
        message == [senderId |-> w1.objs[n].nodeId,
                    globalStep |-> w1.objs[n].globalStep,
                    patternValue |-> cv.value,
                    data |-> data]
        w2 == Log(SetPattern(w1, n, cv.pattern), "emit_broadcast", n, message, 0)
        w3 == IF w2.objs[n].networked
              THEN NetworkBroadcast(w2, message, n, 1)
              ELSE w2
        w4 == incrementStep(w3, n)
    IN  Log(w4, "exit_broadcast", n, message, 0)

(* receive that emits 'message' before it synchronizes *)
receiveSyncLast(w, n, message, routed) ==
    LET w1 == Log(w, "enter_receive", n, message, routed)
        cv == computeValue(w1.objs[n].pattern, message.globalStep)
        w2 == SetPattern(w1, n, cv.pattern)
    IN  IF cv.value # message.patternValue
        THEN Log(Log(w2, "emit_error", n, message, cv.value),
                 "exit_receive", n, message, routed)
        ELSE LET w3 == Log(w2, "emit_message", n, message, 0)
                 w4 == ReplyListeners(w3, n, message, 1)
                 w5 == sync(w4, n, message.globalStep)
             IN  Log(w5, "exit_receive", n, message, routed)

(* receive that synchronizes before it validates *)
receiveSyncFirst(w, n, message, routed) ==
    LET w1 == sync(Log(w, "enter_receive", n, message, routed), n,
                   message.globalStep)
        cv == computeValue(w1.objs[n].pattern, message.globalStep)
        w2 == SetPattern(w1, n, cv.pattern)
    IN  IF cv.value # message.patternValue
        THEN Log(Log(w2, "emit_error", n, message, cv.value),
                 "exit_receive", n, message, routed)
        ELSE LET w4 == Log(w2, "emit_message", n, message, 0)
                 w5 == ReplyListeners(w4, n, message, 1)
             IN  Log(w5, "exit_receive", n, message, routed)

(* receive that accepts without synchronizing *)
receiveNoSync(w, n, message, routed) ==
    LET w1 == Log(w, "enter_receive", n, message, routed)
        cv == computeValue(w1.objs[n].pattern, message.globalStep)
        w2 == SetPattern(w1, n, cv.pattern)
    IN  IF cv.value # message.patternValue
        THEN Log(Log(w2, "emit_error", n, message, cv.value),
                 "exit_receive", n, message, routed)
        ELSE LET w4 == Log(w2, "emit_message", n, message, 0)
                 w5 == ReplyListeners(w4, n, message, 1)
             IN  Log(w5, "exit_receive", n, message, routed)

(* receive that validates against the node's own step *)
receiveOwnStep(w, n, message, routed) ==
    LET w1 == Log(w, "enter_receive", n, message, routed)
        cv == computeValue(w1.objs[n].pattern, w1.objs[n].globalStep)
        w2 == SetPattern(w1, n, cv.pattern)
    IN  IF cv.value # message.patternValue
        THEN Log(Log(w2, "emit_error", n, message, cv.value),
                 "exit_receive", n, message, routed)
        ELSE LET w3 == sync(w2, n, message.globalStep)
                 w4 == Log(w3, "emit_message", n, message, 0)
                 w5 == ReplyListeners(w4, n, message, 1)
             IN  Log(w5, "exit_receive", n, message, routed)

(* receive that syncs to the step before the message's *)
receiveSyncShort(w, n, message, routed) ==
    LET w1 == Log(w, "enter_receive", n, message, routed)
        cv == computeValue(w1.objs[n].pattern, message.globalStep)
        w2 == SetPattern(w1, n, cv.pattern)
    IN  IF cv.value # message.patternValue
        THEN Log(Log(w2, "emit_error", n, message, cv.value),
                 "exit_receive", n, message, routed)
        ELSE LET w3 == sync(w2, n, message.globalStep - 1)
                 w4 == Log(w3, "emit_message", n, message, 0)
                 w5 == ReplyListeners(w4, n, message, 1)
             IN  Log(w5, "exit_receive", n, message, routed)

(* MeshNode.receive(message); routed = 1 when MeshNetwork.broadcast made   *)
(* the call, 0 when the caller is outside the core.                        *)
receive(w, n, message, routed) ==
    LET w1 == Log(w, "enter_receive", n, message, routed)
        cv == computeValue(w1.objs[n].pattern, message.globalStep)
        w2 == SetPattern(w1, n, cv.pattern)
    IN  IF cv.value # message.patternValue
        THEN Log(Log(w2, "emit_error", n, message, cv.value),
                 "exit_receive", n, message, routed)
        ELSE LET w3 == sync(w2, n, message.globalStep)
                 w4 == Log(w3, "emit_message", n, message, 0)
                 w5 == ReplyListeners(w4, n, message, 1)
             IN  Log(w5, "exit_receive", n, message, routed)

(* The onMessage listeners of node n, in registration order.  A listener   *)
(* answers a message whose hop count is below HopLimit by broadcasting     *)
(* the next hop count from its own node, from inside the callback; the     *)
(* listener that changes the registry, if the node has one, runs last.     *)
ReplyListeners(w, n, message, i) ==
    IF i > w.objs[n].replyListeners
    THEN RegistryListener(w, n)
    ELSE LET w1 == IF message.data < HopLimit
                   THEN broadcast(w, n, message.data + 1)
                   ELSE w
         IN  ReplyListeners(w1, n, message, i + 1)

(* ----------------------------- MeshNetwork ---------------------------- *)
(* fan-out without the sender filter *)
NetworkBroadcastAll(w, message, sender, i) ==
    IF i > Len(w.nodes)
    THEN w
    ELSE NetworkBroadcast(receive(w, w.nodes[i].node, message, 1),
                          message, sender, i + 1)

(* fan-out that stops at the first peer that rejects the message *)
NetworkBroadcastHalting(w, message, sender, i) ==
    IF i > Len(w.nodes)
    THEN w
    ELSE LET entry == w.nodes[i]
             w1 == IF entry.nodeId # message.senderId
                   THEN receive(w, entry.node, message, 1)
                   ELSE w
         IN  IF /\ Len(w1.trace) > Len(w.trace)
                /\ w1.trace[Len(w1.trace) - 1].kind = "emit_error"
             THEN w1
             ELSE NetworkBroadcast(w1, message, sender, i + 1)

(* MeshNetwork.broadcast: this.nodes.forEach from entry i on.  forEach     *)
(* reads the map at every step: it reaches entries added since it began    *)
(* and passes over entries emptied since.                                  *)
NetworkBroadcast(w, message, sender, i) ==
    IF i > Len(w.nodes)
    THEN w
    ELSE LET entry == w.nodes[i]
             w1 == IF entry # Empty /\ entry.nodeId # message.senderId
                   THEN receive(w, entry.node, message, 1)
                   ELSE w
         IN  NetworkBroadcast(w1, message, sender, i + 1)

(* ------------------------------ the state ----------------------------- *)
World == [objs |-> objs, nodes |-> nodes, trace |-> << >>]

InBounds(w) ==
    \A n \in 1..Len(w.objs) : w.objs[n].globalStep <= MaxStep

Commit(w) ==
    /\ InBounds(w)
    /\ objs' = w.objs
    /\ nodes' = MapEntries(w.nodes)
    /\ trace' = w.trace

UsedIds == {objs[n].nodeId : n \in 1..Len(objs)}

(* Node ids are interchangeable: a new node takes the first unused id     *)
(* (NextId) or, where duplicates are in scope, one already in use.        *)
NextId ==
    IF Cardinality(UsedIds) < Len(NodeIds)
    THEN {NodeIds[Cardinality(UsedIds) + 1]}
    ELSE {}

Standalone == {n \in 1..Len(objs) : ~objs[n].networked}

NoCall ==
    [op |-> "none", g |-> 0, step |-> 0, value |-> 0, cached |-> FALSE,
     work |-> 0]

(* No MeshObserver has been constructed; nothing was called on one. *)
NoObserver == [constructed |-> FALSE]

NoReply == [op |-> "none"]

Init ==
    /\ objs = << >>
    /\ nodes = << >>
    /\ trace = << >>
    /\ sent = << >>
    /\ seen = {}
    /\ gens = << >>
    /\ call = NoCall
    /\ observer = NoObserver
    /\ reply = NoReply

(* MeshNetwork.createNode(config) *)
createNode(nodeId, seed, phaseResetInterval) ==
    /\ objs' = Append(objs, MeshNode(nodeId, seed, phaseResetInterval, TRUE))
    /\ nodes' = MapSet(nodes, nodeId, Len(objs) + 1)
    /\ trace' = << >>

(* new MeshNode(config), outside any MeshNetwork *)
NewMeshNode(nodeId, seed, phaseResetInterval) ==
    /\ objs' = Append(objs, MeshNode(nodeId, seed, phaseResetInterval, FALSE))
    /\ UNCHANGED nodes
    /\ trace' = << >>

(* removeNode that also takes the Network's subscription off the node *)
removeNodeUnsubscribe(nodeId) ==
    /\ nodes' = MapDelete(nodes, nodeId)
    /\ trace' = << >>
    /\ objs' = [n \in 1..Len(objs) |->
                  IF objs[n].nodeId = nodeId
                  THEN [objs[n] EXCEPT !.networked = FALSE]
                  ELSE objs[n]]

(* MeshNetwork.removeNode(nodeId) *)
removeNode(nodeId) ==
    /\ nodes' = MapDelete(nodes, nodeId)
    /\ trace' = << >>
    /\ UNCHANGED objs

(* MeshNode.onMessage(callback), with the replying callback *)
onMessage(n) ==
    /\ objs[n].replyListeners < MaxListeners
    /\ objs' = [objs EXCEPT ![n].replyListeners = @ + 1]
    /\ trace' = << >>
    /\ UNCHANGED nodes

Broadcast(n, data) == Commit(broadcast(World, n, data))

Receive(n, message) == Commit(receive(World, n, message, 0))

Sync(n, targetStep) == Commit(sync(World, n, targetStep))

(* What a caller outside the core hands to receive: for each step, the    *)
(* message a peer of any configuration would have built, or a corrupted   *)
(* one.                                                                   *)
PatternValues(step) ==
    {computeValue(PatternGenerator(c[1], c[2]), step).value : c \in Configs}
        \cup {Corrupt}

ExternalMessages ==
    UNION {{[senderId |-> p, globalStep |-> step, patternValue |-> v,
             data |-> 0] :
               p \in ExternalSenders, v \in PatternValues(step)} :
                  step \in 0..MaxStep}

(* Nodes with distinct ids, in or outside a Network, driven by every      *)
(* public call of MeshNode.                                               *)
Next ==
    \/ \E id \in NextId, c \in Configs :
          /\ Len(objs) < MaxNodes
          /\ createNode(id, c[1], c[2])
          /\ UNCHANGED <<history, generators, monitoring>>
    \/ \E id \in NextId, c \in Configs :
          /\ Len(objs) < MaxNodes
          /\ Cardinality(Standalone) < MaxStandalone
          /\ NewMeshNode(id, c[1], c[2])
          /\ UNCHANGED <<history, generators, monitoring>>
    \/ \E n \in 1..Len(objs) :
          onMessage(n) /\ UNCHANGED <<history, generators, monitoring>>
    \/ \E n \in 1..Len(objs), data \in Payloads :
          Broadcast(n, data) /\ UNCHANGED <<history, generators, monitoring>>
    \/ \E n \in 1..Len(objs), m \in ExternalMessages :
          Receive(n, m) /\ UNCHANGED <<history, generators, monitoring>>
    \/ \E n \in 1..Len(objs), t \in 0..MaxStep :
          Sync(n, t) /\ UNCHANGED <<history, generators, monitoring>>

Spec == Init /\ [][Next]_vars

(* A Network whose registry changes: createNode (a duplicate id replaces  *)
(* the entry), removeNode, and broadcasts by every node ever created.     *)
NextNet ==
    \/ \E id \in UsedIds \cup NextId, c \in Configs :
          /\ Len(objs) < MaxPeers
          /\ createNode(id, c[1], c[2])
          /\ UNCHANGED <<history, generators, monitoring>>
    \/ \E id \in UsedIds :
          /\ HasKey(nodes, id)
          /\ removeNode(id)
          /\ UNCHANGED <<history, generators, monitoring>>
    \/ \E n \in 1..Len(objs) :
          onMessage(n) /\ UNCHANGED <<history, generators, monitoring>>
    \/ \E n \in 1..Len(objs), data \in Payloads :
          Broadcast(n, data) /\ UNCHANGED <<history, generators, monitoring>>

SpecNet == Init /\ [][NextNet]_vars

(* MeshNode.onMessage(callback) with a callback that, the first time it  *)
(* runs, calls createNode on the node's Network.                          *)
onMessageCreateNode(n, nodeId, seed, phaseResetInterval) ==
    /\ objs[n].registryListener = NoListener
    /\ objs' = [objs EXCEPT ![n].registryListener =
                    [op |-> "createNode", nodeId |-> nodeId, seed |-> seed,
                     phaseResetInterval |-> phaseResetInterval]]
    /\ trace' = << >>
    /\ UNCHANGED nodes

(* MeshNode.onMessage(callback) with a callback that, the first time it  *)
(* runs, calls removeNode on the node's Network.                          *)
onMessageRemoveNode(n, nodeId) ==
    /\ objs[n].registryListener = NoListener
    /\ objs' = [objs EXCEPT ![n].registryListener =
                    [NoListener EXCEPT !.op = "removeNode",
                                       !.nodeId = nodeId]]
    /\ trace' = << >>
    /\ UNCHANGED nodes

(* The nodes that listeners are still to create. *)
Pending ==
    Cardinality({n \in 1..Len(objs) :
                    objs[n].registryListener.op = "createNode"})

(* The ids a listener hands to createNode: one in use or one that no      *)
(* createNode outside a listener takes.                                   *)
ListenerIds == UsedIds \cup {NodeIds[Len(NodeIds)]}

(* A Network whose registry listeners change while a broadcast is being   *)
(* fanned out: nodes have onMessage listeners that create or remove a     *)
(* node from inside the callback.                                         *)
NextJoin ==
    \/ \E id \in NextId, c \in Configs :
          /\ Len(objs) + Pending < MaxPeers
          /\ createNode(id, c[1], c[2])
          /\ UNCHANGED <<history, generators, monitoring>>
    \/ \E n \in 1..Len(objs), id \in ListenerIds, c \in Configs :
          /\ Len(objs) + Pending < MaxPeers
          /\ onMessageCreateNode(n, id, c[1], c[2])
          /\ UNCHANGED <<history, generators, monitoring>>
    \/ \E n \in 1..Len(objs), id \in UsedIds :
          /\ onMessageRemoveNode(n, id)
          /\ UNCHANGED <<history, generators, monitoring>>
    \/ \E n \in 1..Len(objs) :
          Broadcast(n, HopLimit) /\ UNCHANGED <<history, generators, monitoring>>

SpecJoin == Init /\ [][NextJoin]_vars

(* The demonstrations' setting (SynchronizationDemo.runDemo): nodes are   *)
(* created in one Network and then broadcast in any order, while an       *)
(* observer keeps, for each broadcast call, the calling node, the message *)
(* that call emitted and the size of the registry at that time.           *)
RunDemoBroadcast(n, data) ==
    /\ Len(sent) < MaxSent
    /\ Broadcast(n, data)
    /\ sent' = Append(sent, [node |-> n, msg |-> trace'[2].msg,
                             peers |-> Len(nodes)])
    /\ UNCHANGED <<seen, generators, monitoring>>

NextDemo ==
    \/ \E id \in NextId, c \in Configs :
          /\ Len(objs) < MaxNodes
          /\ createNode(id, c[1], c[2])
          /\ UNCHANGED <<history, generators, monitoring>>
    \/ \E n \in 1..Len(objs) :
          onMessage(n) /\ UNCHANGED <<history, generators, monitoring>>
    \/ \E n \in 1..Len(objs), data \in Payloads : RunDemoBroadcast(n, data)

SpecDemo == Init /\ [][NextDemo]_vars

(* What the onMessage and onSync side of a call shows: the steps of the   *)
(* messages each node accepted in it and the targets its sync was called  *)
(* with.                                                                  *)
StepsSeen(tr) ==
    {<<tr[k].node, tr[k].msg.globalStep>> :
        k \in {h \in 1..Len(tr) : tr[h].kind = "emit_message"}}
    \cup {<<tr[k].node, tr[k].val>> :
        k \in {h \in 1..Len(tr) : tr[h].kind = "enter_sync"}}

(* Of the recorded pairs, the highest step of each node. *)
Highest(pairs) ==
    {p \in pairs : \A q \in pairs : q[1] = p[1] => q[2] <= p[2]}

Observed ==
    /\ seen' = Highest(seen \cup StepsSeen(trace'))
    /\ UNCHANGED <<sent, generators, monitoring>>

(* The nodes of one Network under every public call of MeshNode, with an  *)
(* observer that remembers, for each node, the highest step it accepted   *)
(* or was asked to sync to.                                               *)
NextSeen ==
    \/ \E id \in NextId, c \in Configs :
          /\ Len(objs) < MaxNodes
          /\ createNode(id, c[1], c[2])
          /\ UNCHANGED <<history, generators, monitoring>>
    \/ \E n \in 1..Len(objs) :
          onMessage(n) /\ UNCHANGED <<history, generators, monitoring>>
    \/ \E n \in 1..Len(objs), data \in Payloads :
          Broadcast(n, data) /\ Observed
    \/ \E n \in 1..Len(objs), m \in ExternalMessages :
          Receive(n, m) /\ Observed
    \/ \E n \in 1..Len(objs), t \in 0..MaxStep :
          Sync(n, t) /\ Observed

SpecSeen == Init /\ [][NextSeen]_vars

(* ---------------------- PatternGenerator on its own ------------------- *)
(* Two generators constructed independently with one seed and interval,   *)
(* each serving its own sequence of calls.                                *)
InitGen ==
    /\ objs = << >>
    /\ nodes = << >>
    /\ trace = << >>
    /\ sent = << >>
    /\ seen = {}
    /\ gens \in {<<PatternGenerator(s, r), PatternGenerator(s, r)>> :
                    s \in Seeds, r \in Intervals}
    /\ call = NoCall
    /\ observer = NoObserver
    /\ reply = NoReply

(* generator.computeValue(step); call.cached tells whether the step was   *)
(* in the cache when the call was made, call.work how many collapseDigits *)
(* calls it took.                                                         *)
ComputeValue(g, step) ==
    /\ \E cv \in {computeValue(gens[g], step)} :
          /\ gens' = [gens EXCEPT ![g] = cv.pattern]
          /\ call' = [op |-> "computeValue", g |-> g, step |-> step,
                      value |-> cv.value,
                      cached |-> step \in DOMAIN gens[g].cache,
                      work |-> cv.work]
    /\ UNCHANGED <<mesh, history, monitoring>>

(* generator.clearCache() *)
ClearCache(g) ==
    /\ gens' = [gens EXCEPT ![g].cache = << >>]
    /\ call' = [op |-> "clearCache", g |-> g, step |-> 0, value |-> 0,
                cached |-> FALSE, work |-> 0]
    /\ UNCHANGED <<mesh, history, monitoring>>

NextGen ==
    \/ \E g \in 1..Len(gens), step \in 0..MaxGenStep : ComputeValue(g, step)
    \/ \E g \in 1..Len(gens) : ClearCache(g)

SpecGen == InitGen /\ [][NextGen]_vars

(* ------------------------- JavaScript numbers ------------------------- *)
(* getStatistics divides and multiplies in IEEE 754 double precision.  A  *)
(* positive double is [m, e]: m its 53 significand bits, most significant *)
(* (always 1) first, and e the exponent of the last bit, so the value is  *)
(* m * 2^e; zero is the empty significand.  Results are rounded to        *)
(* nearest, ties to even.  Only the operations getStatistics performs are *)
(* defined: an integer divided by a positive integer, and a double        *)
(* multiplied by a positive integer.                                      *)
Precision == 53

Zero == [m |-> << >>, e |-> 0]

RECURSIVE BitsOf(_)
BitsOf(n) ==
    IF n = 0 THEN << >> ELSE Append(BitsOf(n \div 2), n % 2)

RECURSIVE ValueOf(_)
ValueOf(bits) ==
    IF bits = << >> THEN 0
    ELSE 2 * ValueOf(SubSeq(bits, 1, Len(bits) - 1)) + bits[Len(bits)]

(* the k-bit binary numeral of n < 2^k *)
Digits(n, k) == [i \in 1..k |-> (n \div 2^(k - i)) % 2]

Zeros(k) == [i \in 1..k |-> 0]

(* bits without its leading zeros *)
Strip(bits) ==
    IF \A i \in 1..Len(bits) : bits[i] = 0 THEN << >>
    ELSE LET first == CHOOSE i \in 1..Len(bits) :
                          bits[i] = 1 /\ \A j \in 1..(i - 1) : bits[j] = 0
         IN  SubSeq(bits, first, Len(bits))

(* bits + 1; one bit longer when every bit is 1 *)
Increment(bits) ==
    IF \A i \in 1..Len(bits) : bits[i] = 1 THEN <<1>> \o Zeros(Len(bits))
    ELSE LET last == CHOOSE i \in 1..Len(bits) :
                         bits[i] = 0 /\ \A j \in (i + 1)..Len(bits) : bits[j] = 1
         IN  [i \in 1..Len(bits) |->
                 IF i < last THEN bits[i] ELSE IF i = last THEN 1 ELSE 0]

(* The double nearest to bits * 2^e (bits begins with 1), where inexact   *)
(* tells that the true value lies above bits * 2^e by less than 2^e.      *)
Round(bits, e, inexact) ==
    IF Len(bits) <= Precision
    THEN [m |-> bits \o Zeros(Precision - Len(bits)),
          e |-> e - (Precision - Len(bits))]
    ELSE LET kept == SubSeq(bits, 1, Precision)
             dropped == SubSeq(bits, Precision + 1, Len(bits))
             above == inexact \/ \E i \in 2..Len(dropped) : dropped[i] = 1
             up == dropped[1] = 1 /\ (above \/ kept[Precision] = 1)
             raised == IF up THEN Increment(kept) ELSE kept
             e1 == e + Len(dropped)
         IN  IF Len(raised) > Precision
             THEN [m |-> SubSeq(raised, 1, Precision), e |-> e1 + 1]
             ELSE [m |-> raised, e |-> e1]

(* The binary expansion of v / t by long division: bits holds the digits  *)
(* found so far (leading zeros dropped), e the exponent of the last one,  *)
(* r the remainder; two digits beyond the precision are enough to round.  *)
(* Eight digits are produced at a time.                                   *)
RECURSIVE Quotient(_, _, _, _)
Quotient(bits, e, r, t) ==
    IF r = 0 \/ Len(bits) >= Precision + 2
    THEN Round(bits, e, r # 0)
    ELSE Quotient(Strip(bits \o Digits((256 * r) \div t, 8)),
                  e - 8, (256 * r) % t, t)

(* v / t for integers v >= 0, t > 0 *)
Divide(v, t) ==
    IF v = 0 THEN Zero ELSE Quotient(BitsOf(v \div t), 0, v % t, t)

(* bits * c + carry, exactly, by long multiplication from the last digit, *)
(* eight digits at a time                                                 *)
RECURSIVE TimesExact(_, _, _)
TimesExact(bits, c, carry) ==
    IF bits = << >> THEN BitsOf(carry)
    ELSE LET k == IF Len(bits) < 8 THEN Len(bits) ELSE 8
             low == SubSeq(bits, Len(bits) - k + 1, Len(bits))
             sum == ValueOf(low) * c + carry
         IN  TimesExact(SubSeq(bits, 1, Len(bits) - k), c, sum \div 2^k)
                 \o Digits(sum % 2^k, k)

(* x * c for a double x >= 0 and an integer c > 0 *)
Times(x, c) ==
    IF x = Zero THEN Zero ELSE Round(TimesExact(x.m, c, 0), x.e, FALSE)

(* The double that is the integer n >= 0. *)
Number(n) == IF n = 0 THEN Zero ELSE Round(BitsOf(n), 0, FALSE)

(* ----------------------------- MeshObserver --------------------------- *)
(* new MeshObserver(config): its own generator and two empty logs; the    *)
(* listener counts stand for the callbacks registered on its emitter.     *)
MeshObserver(seed, phaseResetInterval) ==
    [constructed |-> TRUE,
     pattern |-> PatternGenerator(seed, phaseResetInterval),
     observedMessages |-> << >>,
     anomalies |-> << >>,
     validListeners |-> 0,
     anomalyListeners |-> 0]

(* observe that treats a message with a step below zero as an anomaly *)
observeValidated(o, message) ==
    LET cv == computeValue(o.pattern, message.globalStep)
        o1 == [o EXCEPT !.pattern = cv.pattern]
        anomaly == [type |-> "pattern-mismatch", message |-> message,
                    expected |-> cv.value, received |-> message.patternValue]
    IN  IF cv.value # message.patternValue \/ message.globalStep < 0
        THEN [observer |-> [o1 EXCEPT !.anomalies = Append(@, anomaly)],
              events |-> <<[event |-> "anomaly", payload |-> anomaly,
                            listeners |-> o.anomalyListeners]>>]
        ELSE [observer |-> [o1 EXCEPT !.observedMessages = Append(@, message)],
              events |-> <<[event |-> "valid-message", payload |-> message,
                            listeners |-> o.validListeners]>>]

(* observe that keeps every message, matching or not, in observedMessages *)
observeKeepAll(o, message) ==
    LET cv == computeValue(o.pattern, message.globalStep)
        o1 == [o EXCEPT !.pattern = cv.pattern,
                        !.observedMessages = Append(@, message)]
        anomaly == [type |-> "pattern-mismatch", message |-> message,
                    expected |-> cv.value, received |-> message.patternValue]
    IN  IF cv.value # message.patternValue
        THEN [observer |-> [o1 EXCEPT !.anomalies = Append(@, anomaly)],
              events |-> <<[event |-> "anomaly", payload |-> anomaly,
                            listeners |-> o.anomalyListeners]>>]
        ELSE [observer |-> o1,
              events |-> <<[event |-> "valid-message", payload |-> message,
                            listeners |-> o.validListeners]>>]

(* MeshObserver.observe(message).  The result is the observer afterwards  *)
(* and the events emitted, each with the number of listeners it reached.  *)
(* The anomaly's timestamp (Date.now()) is read by no code and left out.  *)
observe(o, message) ==
    LET cv == computeValue(o.pattern, message.globalStep)
        o1 == [o EXCEPT !.pattern = cv.pattern]
        anomaly == [type |-> "pattern-mismatch", message |-> message,
                    expected |-> cv.value, received |-> message.patternValue]
    IN  IF cv.value # message.patternValue
        THEN [observer |-> [o1 EXCEPT !.anomalies = Append(@, anomaly)],
              events |-> <<[event |-> "anomaly", payload |-> anomaly,
                            listeners |-> o.anomalyListeners]>>]
        ELSE [observer |-> [o1 EXCEPT !.observedMessages = Append(@, message)],
              events |-> <<[event |-> "valid-message", payload |-> message,
                            listeners |-> o.validListeners]>>]

(* getStatistics counting the anomalies twice in the total *)
getStatisticsTwice(o) ==
    LET totalObserved == Len(o.observedMessages) + 2 * Len(o.anomalies)
    IN  [totalObserved |-> totalObserved,
         validMessages |-> Len(o.observedMessages),
         anomalies |-> Len(o.anomalies),
         successRate |-> IF totalObserved > 0
                         THEN Times(Divide(Len(o.observedMessages),
                                           totalObserved), 100)
                         ELSE Zero]

(* getStatistics that leaves the rate a fraction of 1 *)
getStatisticsFraction(o) ==
    LET totalObserved == Len(o.observedMessages) + Len(o.anomalies)
    IN  [totalObserved |-> totalObserved,
         validMessages |-> Len(o.observedMessages),
         anomalies |-> Len(o.anomalies),
         successRate |-> IF totalObserved > 0
                         THEN Divide(Len(o.observedMessages), totalObserved)
                         ELSE Zero]

(* MeshObserver.getStatistics() *)
getStatistics(o) ==
    LET totalObserved == Len(o.observedMessages) + Len(o.anomalies)
    IN  [totalObserved |-> totalObserved,
         validMessages |-> Len(o.observedMessages),
         anomalies |-> Len(o.anomalies),
         successRate |-> IF totalObserved > 0
                         THEN Times(Divide(Len(o.observedMessages),
                                           totalObserved), 100)
                         ELSE Zero]

(* clearHistory that also replaces the generator *)
clearHistoryAndCache(o) ==
    [o EXCEPT !.observedMessages = << >>, !.anomalies = << >>,
              !.pattern.cache = << >>]

(* MeshObserver.clearHistory() *)
clearHistory(o) ==
    [o EXCEPT !.observedMessages = << >>, !.anomalies = << >>]

(* validateNodeConfig(config) of core/mesh-node.ts, for configurations    *)
(* whose fields have the declared types.  No constructor calls it.        *)
validateNodeConfig(nodeId, seed, phaseResetInterval) ==
    phaseResetInterval > 0

(* ----------------------------- construction --------------------------- *)
(* Every constructor of the core, handed configurations that include a    *)
(* zero and a negative interval and an empty nodeId.  Nothing is called   *)
(* on the objects here.                                                   *)
NewPatternGenerator(seed, phaseResetInterval) ==
    /\ gens' = Append(gens, PatternGenerator(seed, phaseResetInterval))
    /\ UNCHANGED <<mesh, history, call, monitoring>>

NewMeshObserver(seed, phaseResetInterval) ==
    /\ observer' = MeshObserver(seed, phaseResetInterval)
    /\ UNCHANGED <<mesh, history, generators, reply>>

NextConfig ==
    \/ \E id \in UsedIds \cup NextId \cup {EmptyId},
          c \in Configs \cup BadConfigs :
          /\ Len(objs) < MaxNodes
          /\ createNode(id, c[1], c[2])
          /\ UNCHANGED <<history, generators, monitoring>>
    \/ \E id \in UsedIds :
          /\ HasKey(nodes, id)
          /\ removeNode(id)
          /\ UNCHANGED <<history, generators, monitoring>>
    \/ \E c \in Configs \cup BadConfigs :
          Len(gens) < MaxStandalone /\ NewPatternGenerator(c[1], c[2])
    \/ \E c \in Configs \cup BadConfigs :
          ~observer.constructed /\ NewMeshObserver(c[1], c[2])

SpecConfig == Init /\ [][NextConfig]_vars

(* ----------------------- reading a call's trace ------------------------ *)
Idx == 1..Len(trace)

IsEnter(e) == e.kind \in {"enter_broadcast", "enter_receive", "enter_sync"}

IsExit(e) == e.kind \in {"exit_broadcast", "exit_receive", "exit_sync"}

(* Nesting level of event i: 1 for the call the action made, 2 for a call *)
(* made from inside it, and so on.                                        *)
Depth(i) ==
    Cardinality({k \in 1..i : IsEnter(trace[k])})
        - Cardinality({k \in 1..(i - 1) : IsExit(trace[k])})

(* The event at which the call entered at event i returns. *)
ExitOf(i) ==
    CHOOSE j \in (i + 1)..Len(trace) :
        /\ IsExit(trace[j])
        /\ Depth(j) = Depth(i)
        /\ \A k \in (i + 1)..(j - 1) :
              ~(IsExit(trace[k]) /\ Depth(k) = Depth(i))

(* The events the call entered at i emitted itself (not its callees). *)
OwnEmits(i) ==
    {k \in (i + 1)..(ExitOf(i) - 1) :
        /\ ~IsEnter(trace[k])
        /\ ~IsExit(trace[k])
        /\ Depth(k) = Depth(i)}

Cfg(n) == <<objs[n].pattern.seed, objs[n].pattern.phaseResetInterval>>

(* The value node n computes for a step. *)
Expected(n, step) == computeValue(objs[n].pattern, step).value

(* The value of a generator that has computed nothing yet. *)
PatternAt(seed, phaseResetInterval, step) ==
    computeValue(PatternGenerator(seed, phaseResetInterval), step).value

Max(x, y) == IF x > y THEN x ELSE y

(* The node object whose broadcast built the message of event i: the      *)
(* latest 'broadcast' emission of that message before i, 0 if there is    *)
(* none (the message came from outside).                                  *)
SenderOf(i) ==
    LET E == {k \in 1..(i - 1) :
                 trace[k].kind = "emit_broadcast" /\ trace[k].msg = trace[i].msg}
    IN  IF E = {} THEN 0
        ELSE trace[CHOOSE k \in E : \A h \in E : h <= k].node

Registered == {nodes[i].node : i \in 1..Len(nodes)}

(* A Network whose nodes share one seed and interval, have no replying    *)
(* listener and do nothing but broadcast.  Nodes may join late (at step   *)
(* 0, whatever the others have reached); the registry holds at most       *)
(* MaxPeers nodes, so from some point on it is fixed.  sent lists the     *)
(* nodes that have broadcast since the registry last changed, each with   *)
(* the step its latest message was stamped with, the latest caller last.  *)
JoinLive(id, c) ==
    /\ Len(objs) < MaxPeers
    /\ \A n \in 1..Len(objs) : Cfg(n) = c
    /\ createNode(id, c[1], c[2])
    /\ sent' = << >>
    /\ UNCHANGED <<seen, generators, monitoring>>

CalledLast(n) ==
    LET Other(e) == e.node # n
    IN  Append(SelectSeq(sent, Other),
               [node |-> n, step |-> objs[n].globalStep])

InLive(w) == \A k \in 1..Len(w.objs) : w.objs[k].globalStep <= MaxLiveStep

LiveBroadcast(n) ==
    /\ n \in 1..Len(objs)
    /\ \E w \in {broadcast(World, n, HopLimit)} :
          /\ InLive(w)
          /\ objs' = w.objs
          /\ nodes' = w.nodes
          /\ trace' = w.trace
    /\ sent' = CalledLast(n)
    /\ UNCHANGED <<seen, generators, monitoring>>

NextLive ==
    \/ \E id \in NextId, c \in Configs : JoinLive(id, c)
    \/ \E n \in 1..MaxPeers : LiveBroadcast(n)

(* Node n can broadcast within the steps followed: broadcast raises the   *)
(* caller by 1 and no peer above the caller's step.                       *)
CanBroadcast(n) ==
    /\ n \in 1..Len(objs)
    /\ objs[n].globalStep < MaxLiveStep

(* The step of NextLive that is a broadcast call of node n: it is the     *)
(* only one that puts n last in sent, and it always changes sent, for a   *)
(* node's next message is stamped with a higher step than its last.       *)
BroadcastBy(n) ==
    /\ CanBroadcast(n)
    /\ sent' = CalledLast(n)

(* "Every node broadcasts again and again": no node's broadcast stays     *)
(* possible for ever without being made.                                  *)
SpecLive ==
    /\ Init
    /\ [][NextLive]_vars
    /\ \A n \in 1..MaxPeers : WF_sent(BroadcastBy(n))

(* ------------------------ a MeshObserver at work ---------------------- *)
(* The messages handed to observe: for each step, one below zero among    *)
(* them, the message a node of any configuration would have built, or a   *)
(* corrupted one.  The step below zero is one above a multiple of every   *)
(* interval of Configs, so computeValue recurses once to reach its reset  *)
(* branch.                                                                *)
ObservedSteps == {-99, 0, 1}

ObservedMessages ==
    UNION {{[senderId |-> p, globalStep |-> step, patternValue |-> v,
             data |-> 0] :
               p \in ExternalSenders, v \in PatternValues(step)} :
                  step \in ObservedSteps}

(* Whether a message carries the value of its step under the observer's   *)
(* configuration, by a generator that has computed nothing yet.           *)
Matches(message) ==
    PatternAt(observer.pattern.seed, observer.pattern.phaseResetInterval,
              message.globalStep) = message.patternValue

Observe(message) ==
    /\ observer.constructed
    /\ Len(observer.observedMessages) + Len(observer.anomalies) < MaxLog
    /\ LET r == observe(observer, message)
       IN  /\ observer' = r.observer
           /\ reply' = [op |-> "observe", message |-> message,
                        events |-> r.events]
    /\ UNCHANGED <<mesh, generators>>

GetStatistics ==
    /\ observer.constructed
    /\ reply' = [op |-> "getStatistics", statistics |-> getStatistics(observer)]
    /\ UNCHANGED <<mesh, generators, observer>>

ClearHistory ==
    /\ observer.constructed
    /\ observer' = clearHistory(observer)
    /\ reply' = [op |-> "clearHistory"]
    /\ UNCHANGED <<mesh, generators>>

(* MeshObserver.onAnomaly(callback) *)
OnAnomaly ==
    /\ observer.constructed
    /\ observer.anomalyListeners < MaxListeners
    /\ observer' = [observer EXCEPT !.anomalyListeners = @ + 1]
    /\ reply' = [op |-> "onAnomaly"]
    /\ UNCHANGED <<mesh, generators>>

(* MeshObserver.onValidMessage(callback) *)
OnValidMessage ==
    /\ observer.constructed
    /\ observer.validListeners < MaxListeners
    /\ observer' = [observer EXCEPT !.validListeners = @ + 1]
    /\ reply' = [op |-> "onValidMessage"]
    /\ UNCHANGED <<mesh, generators>>

(* One MeshObserver of any configuration, driven by every public call.    *)
(* sent is the history of its observe calls since the last clearHistory:  *)
(* for each call, whether the message matched; seen tells whether         *)
(* clearHistory was ever called.                                          *)
NextObs ==
    \/ \E c \in Configs :
          ~observer.constructed /\ NewMeshObserver(c[1], c[2])
    \/ \E m \in ObservedMessages :
          /\ Observe(m)
          /\ sent' = Append(sent, Matches(m))
          /\ UNCHANGED seen
    \/ GetStatistics /\ UNCHANGED history
    \/ ClearHistory /\ sent' = << >> /\ seen' = {"clearHistory"}
    \/ OnAnomaly /\ UNCHANGED history
    \/ OnValidMessage /\ UNCHANGED history

SpecObs == Init /\ [][NextObs]_vars

(* A MeshObserver and a MeshNode of the same configuration, each handed   *)
(* messages independently of the other; the node also broadcasts, which   *)
(* moves its globalStep.                                                  *)
ObserverCfg ==
    <<observer.pattern.seed, observer.pattern.phaseResetInterval>>

NextPair ==
    \/ \E c \in Configs :
          /\ ~observer.constructed
          /\ objs # << >> => Cfg(1) = c
          /\ NewMeshObserver(c[1], c[2])
    \/ \E c \in Configs :
          /\ objs = << >>
          /\ observer.constructed => ObserverCfg = c
          /\ NewMeshNode(NodeIds[1], c[1], c[2])
          /\ UNCHANGED <<history, generators, monitoring>>
    \/ \E m \in ObservedMessages : Observe(m) /\ UNCHANGED history
    \/ ClearHistory /\ UNCHANGED history
    \/ \E n \in 1..Len(objs), m \in ObservedMessages :
          Receive(n, m) /\ UNCHANGED <<history, generators, monitoring>>
    \/ \E n \in 1..Len(objs), data \in Payloads :
          Broadcast(n, data) /\ UNCHANGED <<history, generators, monitoring>>

SpecPair == Init /\ [][NextPair]_vars

(* Messages of the last step in range: validating one fills a cache up    *)
(* to that step.                                                           *)
LateMessages == {m \in ExternalMessages : m.globalStep = MaxStep}

(* Every owner of a generator side by side: the nodes of a Network, whose  *)
(* registry changes, and a MeshObserver, each driven by every public call. *)
(* The observer's history is cleared before it observes again.             *)
NextOwners ==
    \/ \E id \in NextId, c \in Configs :
          /\ Len(objs) < MaxNodes
          /\ createNode(id, c[1], c[2])
          /\ UNCHANGED <<history, generators, monitoring>>
    \/ \E id \in UsedIds :
          /\ HasKey(nodes, id)
          /\ removeNode(id)
          /\ UNCHANGED <<history, generators, monitoring>>
    \/ \E n \in 1..Len(objs) :
          Broadcast(n, HopLimit) /\ UNCHANGED <<history, generators, monitoring>>
    \/ \E n \in 1..Len(objs), m \in LateMessages :
          Receive(n, m) /\ UNCHANGED <<history, generators, monitoring>>
    \/ \E n \in 1..Len(objs) :
          Sync(n, MaxStep) /\ UNCHANGED <<history, generators, monitoring>>
    \/ \E c \in Configs :
          ~observer.constructed /\ NewMeshObserver(c[1], c[2])
    \/ \E m \in LateMessages :
          /\ observer.constructed
          /\ observer.observedMessages = << >>
          /\ observer.anomalies = << >>
          /\ Observe(m)
          /\ UNCHANGED history
    \/ GetStatistics /\ UNCHANGED history
    \/ ClearHistory /\ UNCHANGED history

SpecOwners == Init /\ [][NextOwners]_vars

(* ------------------------------- claims ------------------------------- *)

(* C1: globalStep never decreases: along everything a call does (the call *)
(* itself, the receive and sync calls the Network's fan-out and the       *)
(* listeners make inside it), a node's globalStep at a later event is at  *)
(* least its globalStep at an earlier one, starting from its value before *)
(* the call and ending with its value after it.                           *)
C1_StepNeverDecreases ==
    /\ \A i \in Idx : \A j \in Idx :
          (i < j /\ trace[i].node = trace[j].node)
              => trace[i].step <= trace[j].step
    /\ \A i \in Idx : trace[i].step <= objs[trace[i].node].globalStep

(* A node that is ahead accepted, through the fan-out, a message of a     *)
(* lower step, and a sync call asked for a lower step.                    *)
C1_Witness ==
    \E i \in Idx : \E j \in Idx :
        /\ trace[i].kind = "emit_message"
        /\ trace[i].msg.globalStep < trace[i].step
        /\ SenderOf(i) # 0
        /\ trace[j].kind = "enter_sync"
        /\ trace[j].val < trace[j].step

(* C3: a receive call whose message carries a value other than the one   *)
(* the node computes for message.globalStep does exactly one thing: it    *)
(* emits one error event with the message and the expected value.  No     *)
(* sync call, no sync event, no message event, and the node's globalStep  *)
(* when the call returns is its globalStep when the call began.           *)
C3_MismatchRejected ==
    \A i \in Idx :
        (/\ trace[i].kind = "enter_receive"
         /\ Expected(trace[i].node, trace[i].msg.globalStep)
               # trace[i].msg.patternValue)
        => /\ ExitOf(i) = i + 2
           /\ trace[i + 1].kind = "emit_error"
           /\ trace[i + 1].node = trace[i].node
           /\ trace[i + 1].msg = trace[i].msg
           /\ trace[i + 1].val
                 = Expected(trace[i].node, trace[i].msg.globalStep)
           /\ trace[i + 2].kind = "exit_receive"
           /\ trace[i + 2].step = trace[i].step

(* A node rejected a message that declares a step above its own. *)
C3_Witness ==
    \E i \in Idx :
        /\ trace[i].kind = "emit_error"
        /\ trace[i].msg.globalStep > trace[i].step
        /\ trace[i].val # trace[i].msg.patternValue

(* C4: a receive call whose message carries the value the node computes   *)
(* for message.globalStep first calls sync(message.globalStep), after     *)
(* which the node's globalStep is the larger of its former value and      *)
(* message.globalStep, then emits exactly one message event, carrying     *)
(* that message, and emits no error event.                                *)
C4_MatchAccepted ==
    \A i \in Idx :
        (/\ trace[i].kind = "enter_receive"
         /\ Expected(trace[i].node, trace[i].msg.globalStep)
               = trace[i].msg.patternValue)
        => /\ trace[i + 1].kind = "enter_sync"
           /\ trace[i + 1].node = trace[i].node
           /\ trace[i + 1].val = trace[i].msg.globalStep
           /\ \E k \in OwnEmits(i) :
                 /\ OwnEmits(i) = {k}
                 /\ k = ExitOf(i + 1) + 1
                 /\ trace[k].kind = "emit_message"
                 /\ trace[k].node = trace[i].node
                 /\ trace[k].msg = trace[i].msg
                 /\ trace[k].step
                       = Max(trace[i].step, trace[i].msg.globalStep)

(* A node accepted a message that declares a step above its own. *)
C4_Witness ==
    \E i \in Idx : \E k \in Idx :
        /\ trace[i].kind = "enter_receive"
        /\ trace[i].msg.globalStep > trace[i].step
        /\ k > i
        /\ trace[k].kind = "emit_message"
        /\ trace[k].node = trace[i].node
        /\ trace[k].msg = trace[i].msg

(* C5: the first thing a broadcast call does is to emit one message with  *)
(* senderId the node's id, globalStep the node's globalStep when the call *)
(* began, the payload it was given, and the value a generator of the      *)
(* node's seed and interval yields for that step; a node of seed 7 and    *)
(* interval 100 at step 0 emits value 7.                                  *)
C5_BroadcastMessage ==
    \A i \in Idx :
        trace[i].kind = "enter_broadcast"
        => LET n == trace[i].node
               m == trace[i + 1].msg
           IN  /\ trace[i + 1].kind = "emit_broadcast"
               /\ trace[i + 1].node = n
               /\ m.senderId = objs[n].nodeId
               /\ m.globalStep = trace[i].step
               /\ m.data = trace[i].val
               /\ m.patternValue
                     = PatternAt(Cfg(n)[1], Cfg(n)[2], trace[i].step)
               /\ (Cfg(n) = <<7, 100>> /\ trace[i].step = 0)
                     => (m.globalStep = 0 /\ m.patternValue = 7)

(* A node of seed 7 and interval 100 broadcast at step 0, and a node      *)
(* broadcast at a later step.                                             *)
C5_Witness ==
    /\ Len(trace) >= 2
    /\ trace[1].kind = "enter_broadcast"
    /\ Cfg(trace[1].node) = <<7, 100>>
    /\ trace[1].step = 0
    /\ trace[2].msg.patternValue = 7
    /\ \E i \in Idx :
          /\ trace[i].kind = "emit_broadcast"
          /\ trace[i].msg.globalStep > 0

(* C7: sync(targetStep) with targetStep above globalStep sets globalStep  *)
(* to targetStep and emits exactly one sync event carrying it; with       *)
(* targetStep at or below globalStep it changes nothing and emits         *)
(* nothing.                                                               *)
C7_SyncEffect ==
    \A i \in Idx :
        trace[i].kind = "enter_sync"
        => IF trace[i].val > trace[i].step
           THEN /\ ExitOf(i) = i + 2
                /\ trace[i + 1].kind = "emit_sync"
                /\ trace[i + 1].node = trace[i].node
                /\ trace[i + 1].val = trace[i].val
                /\ trace[i + 1].step = trace[i].val
                /\ trace[i + 2].step = trace[i].val
           ELSE /\ ExitOf(i) = i + 1
                /\ trace[i + 1].step = trace[i].step

(* sync was called with the node's own step, and it changed nothing. *)
C7_Witness ==
    /\ Len(trace) = 2
    /\ trace[1].kind = "enter_sync"
    /\ trace[1].val = trace[1].step
    /\ trace[1].step > 0
    /\ objs[trace[1].node].globalStep = trace[1].step

(* C6 as stated: every broadcast call emits one message of its own and   *)
(* returns with the node's globalStep one above its value when the call   *)
(* began.                                                                 *)
C6_ReturnsStartPlusOne ==
    \A i \in Idx :
        trace[i].kind = "enter_broadcast"
        => /\ OwnEmits(i) = {i + 1}
           /\ trace[i + 1].kind = "emit_broadcast"
           /\ trace[ExitOf(i)].step = trace[i].step + 1

(* The calls made on the node of the call entered at i while that call    *)
(* is running.                                                            *)
Reentries(i) ==
    {k \in (i + 1)..(ExitOf(i) - 1) :
        IsEnter(trace[k]) /\ trace[k].node = trace[i].node}

(* The last event of the node of event j before j. *)
LastBefore(j) ==
    CHOOSE k \in 1..(j - 1) :
        /\ trace[k].node = trace[j].node
        /\ \A h \in (k + 1)..(j - 1) : trace[h].node # trace[j].node

(* C6, amended: every broadcast call emits exactly one message of its own *)
(* and, as its last step, raises the node's globalStep by exactly 1 above *)
(* the value it has then; the value on return is the value when the call  *)
(* began plus 1 whenever no call is made on the node while the fan-out    *)
(* runs.                                                                  *)
C6_BroadcastAdvances ==
    \A i \in Idx :
        trace[i].kind = "enter_broadcast"
        => /\ OwnEmits(i) = {i + 1}
           /\ trace[i + 1].kind = "emit_broadcast"
           /\ trace[ExitOf(i)].step = trace[LastBefore(ExitOf(i))].step + 1
           /\ Reentries(i) = {}
                 => trace[ExitOf(i)].step = trace[i].step + 1

(* A peer answered from inside its listener with a higher step: the       *)
(* broadcasting node was synchronized forward during its own fan-out and  *)
(* returned more than 1 above where it began.                             *)
C6_Witness ==
    \E i \in Idx :
        /\ trace[i].kind = "enter_broadcast"
        /\ \E k \in Reentries(i) : trace[k].kind = "enter_receive"
        /\ trace[ExitOf(i)].step > trace[i].step + 1

(* C2: a message built by a node's broadcast is never rejected by a peer  *)
(* created with the same seed and resetInterval as the broadcaster: every *)
(* pattern-mismatch error raised during a fan-out is raised by a peer     *)
(* whose seed or interval differs from the sender's.                      *)
C2_SameConfigAccepts ==
    \A i \in Idx :
        trace[i].kind = "emit_error"
        => /\ SenderOf(i) # 0
           /\ Cfg(trace[i].node) # Cfg(SenderOf(i))

(* Three registered nodes of one seed and interval, standing at different *)
(* steps, and a broadcast that two peers accepted.                        *)
C2_Witness ==
    /\ Len(nodes) = 3
    /\ \A n \in 1..Len(objs) : Cfg(n) = Cfg(1)
    /\ \E i \in Idx : \E j \in Idx :
          /\ trace[i].kind = "emit_message"
          /\ trace[j].kind = "emit_message"
          /\ trace[i].msg = trace[j].msg
          /\ trace[i].node # trace[j].node
          /\ trace[i].msg.globalStep > 0
          /\ trace[i].step # trace[j].step

(* C8: the Network never calls receive on the node whose broadcast built  *)
(* the message.                                                           *)
C8_NeverBackToSender ==
    \A i \in Idx :
        (trace[i].kind = "enter_receive" /\ trace[i].val = 1)
        => /\ SenderOf(i) # 0
           /\ SenderOf(i) # trace[i].node

(* After a removal or a replacement in the registry, a node that is still *)
(* registered broadcast and a peer was handed the message.                *)
C8_Witness ==
    /\ Len(objs) > Len(nodes)
    /\ \E i \in Idx :
          /\ trace[i].kind = "enter_receive"
          /\ trace[i].val = 1
          /\ SenderOf(i) \in Registered

(* C9 as stated: during every broadcast call of a node, receive is called *)
(* exactly once, with the message, on every other node in the registry.   *)
C9_EveryOtherNodeOnce ==
    \A i \in Idx :
        trace[i].kind = "enter_broadcast"
        => \A e \in 1..Len(nodes) :
              nodes[e].node # trace[i].node
              => Cardinality(
                    {k \in (i + 1)..(ExitOf(i) - 1) :
                        /\ trace[k].kind = "enter_receive"
                        /\ trace[k].val = 1
                        /\ trace[k].node = nodes[e].node
                        /\ trace[k].msg = trace[i + 1].msg}) = 1

(* The receive calls the Network made with the message emitted at k. *)
Deliveries(k) ==
    {h \in (k + 1)..Len(trace) :
        /\ trace[h].kind = "enter_receive"
        /\ trace[h].val = 1
        /\ trace[h].msg = trace[k].msg}

(* C10: when a peer rejects a broadcast message, the fan-out goes on:     *)
(* every node registered under an id other than the sender's has receive  *)
(* called with the message exactly once, and each of them that computes   *)
(* the message's value accepts it.                                        *)
C10_MismatchDoesNotHalt ==
    \A k \in Idx :
        (/\ trace[k].kind = "emit_broadcast"
         /\ \E h \in Idx : /\ h > k
                           /\ trace[h].kind = "emit_error"
                           /\ trace[h].msg = trace[k].msg)
        => \A e \in 1..Len(nodes) :
              nodes[e].nodeId # trace[k].msg.senderId
              => /\ \E h \in Deliveries(k) :
                       /\ trace[h].node = nodes[e].node
                       /\ \A g \in Deliveries(k) :
                             trace[g].node = nodes[e].node => g = h
                 /\ Expected(nodes[e].node, trace[k].msg.globalStep)
                       = trace[k].msg.patternValue
                    => \E h \in Idx :
                          /\ h > k
                          /\ trace[h].kind = "emit_message"
                          /\ trace[h].node = nodes[e].node
                          /\ trace[h].msg = trace[k].msg

(* A peer rejected the message and a peer later in the registry accepted  *)
(* it.                                                                    *)
C10_Witness ==
    \E i \in Idx : \E j \in Idx :
        /\ i < j
        /\ trace[i].kind = "emit_error"
        /\ trace[j].kind = "emit_message"
        /\ trace[i].msg = trace[j].msg

(* A node on which nothing has been called yet. *)
Fresh(n) ==
    /\ objs[n].globalStep = 0
    /\ objs[n].pattern.cache = << >>

(* C11 as stated: in a Network of two fresh nodes A and B of one seed and *)
(* interval, A's broadcast at step 0 has receive called on B with the     *)
(* message exactly once, has B emit exactly one message event with it,    *)
(* and leaves B, once synchronized, at globalStep 1 or more.              *)
C11_FreshPeerReachesStepOne ==
    [][(/\ Len(objs) = 2
        /\ Len(nodes) = 2
        /\ Cfg(1) = Cfg(2)
        /\ Fresh(1)
        /\ Fresh(2)
        /\ Len(trace') > 0
        /\ trace'[1].kind = "enter_broadcast")
       => LET a == trace'[1].node
              b == 3 - a
              m == trace'[2].msg
              At(kind) == {k \in 1..Len(trace') :
                              /\ trace'[k].kind = kind
                              /\ trace'[k].node = b
                              /\ trace'[k].msg = m}
          IN  /\ Cardinality(At("enter_receive")) = 1
              /\ Cardinality(At("emit_message")) = 1
              /\ \A k \in At("emit_message") : trace'[k].step >= 1]_vars

(* C12 as stated: a receive call whose message declares a globalStep      *)
(* below the node's globalStep at the time of the call emits no message   *)
(* event.                                                                 *)
C12_StaleRejected ==
    \A i \in Idx :
        (/\ trace[i].kind = "enter_receive"
         /\ trace[i].msg.globalStep < trace[i].step)
        => \A k \in OwnEmits(i) : trace[k].kind # "emit_message"

(* C13 as stated: in a Network of two fresh nodes A and B of one seed and *)
(* interval, when A broadcasts, then B, then A again (and nothing else    *)
(* is called), the three messages carry globalStep 0, 1 and 2.            *)
C13_DemoSteps ==
    (/\ Len(objs) = 2
     /\ Cfg(1) = Cfg(2)
     /\ \A n \in 1..Len(objs) : objs[n].replyListeners = 0
     /\ Len(sent) = 3
     /\ sent[1].peers = 2
     /\ sent[2].node # sent[1].node
     /\ sent[3].node = sent[1].node)
    => /\ sent[1].msg.globalStep = 0
       /\ sent[2].msg.globalStep = 1
       /\ sent[3].msg.globalStep = 2

(* C14: a node's globalStep is never below the globalStep of a message it *)
(* has accepted nor below a targetStep its sync was called with: between  *)
(* calls, for everything recorded since the node was created, and inside  *)
(* a call, from the acceptance or the sync call onwards.                  *)
C14_AtLeastHighestSeen ==
    /\ \A p \in seen : objs[p[1]].globalStep >= p[2]
    /\ \A p \in StepsSeen(trace) : \E q \in seen : q[1] = p[1] /\ q[2] >= p[2]
    /\ \A i \in Idx : \A j \in Idx :
          (i < j /\ trace[i].node = trace[j].node)
          => /\ trace[i].kind = "emit_message"
                => trace[j].step >= trace[i].msg.globalStep
             /\ (trace[i].kind = "enter_sync" /\ ~IsEnter(trace[j]))
                => trace[j].step >= trace[i].val

(* A node that has seen a step above 0 was asked to sync to a lower one. *)
C14_Witness ==
    \E n \in 1..Len(objs) :
        /\ \E p \in seen : p[1] = n /\ p[2] > 0
        /\ Len(trace) = 2
        /\ trace[1].kind = "enter_sync"
        /\ trace[1].node = n
        /\ trace[1].val < trace[1].step

RegisteredSteps == {objs[n].globalStep : n \in Registered}

(* Any two registered nodes are within 1 step of each other. *)
WithinOne == \A x \in RegisteredSteps : \A y \in RegisteredSteps : x - y <= 1

(* Every registered node has broadcast since the registry last changed. *)
RoundDone == \A n \in Registered : \E i \in 1..Len(sent) : sent[i].node = n

(* C15: while the registry is fixed and its nodes, which share seed and   *)
(* interval, keep broadcasting, eventually all registered nodes are       *)
(* within 1 step of each other and remain so.  Three facts that do not    *)
(* depend on how far the steps are followed carry it: a broadcast by a    *)
(* node holding the highest step brings every registered node within 1;   *)
(* no broadcast takes nodes that are within 1 out of it; and once every   *)
(* registered node has broadcast, they are within 1.                      *)
C15_Converges ==
    /\ <>[]WithinOne
    /\ [][(/\ Len(nodes') = Len(nodes)
           /\ \A x \in RegisteredSteps : x <= objs[trace'[1].node].globalStep)
          => WithinOne']_vars
    /\ [][(Len(nodes') = Len(nodes) /\ WithinOne) => WithinOne']_vars
    /\ [](RoundDone => WithinOne)
    /\ [](\A n \in 1..MaxPeers :
             CanBroadcast(n)
                <=> (n \in 1..Len(objs)
                        /\ InLive(broadcast(World, n, HopLimit))))

(* A node two or more steps behind was brought level by one broadcast of  *)
(* the node ahead, below the highest step followed.                       *)
C15_Witness ==
    /\ Len(nodes) = MaxPeers
    /\ WithinOne
    /\ \A x \in RegisteredSteps : x < MaxLiveStep
    /\ \E i \in Idx :
          /\ trace[i].kind = "emit_sync"
          /\ trace[i].val >= trace[i - 1].step + 2

(* ----------------------- PatternGenerator claims ----------------------- *)
Called == call.op = "computeValue"

Seed == gens[1].seed

Interval == gens[1].phaseResetInterval

(* C16: a computeValue call for a step that is a multiple of the interval *)
(* returns the seed (seed 1..9), whatever the generator computed before.  *)
C16_ResetReturnsSeed ==
    (Called /\ Seed \in 1..9 /\ call.step % Interval = 0)
    => call.value = Seed

(* A generator that already holds the step before a later reset step (and *)
(* so has served other calls) computed that reset step.                   *)
C16_Witness ==
    /\ Called
    /\ Seed \in 1..9
    /\ call.step > 0
    /\ call.step % Interval = 0
    /\ ~call.cached
    /\ (call.step - 1) \in DOMAIN gens[call.g].cache

CachedValues(g) == {gens[g].cache[k] : k \in DOMAIN gens[g].cache}

RECURSIVE digitCollapse(_)
digitCollapse(n) ==
    IF n <= 9 THEN n ELSE digitCollapse(DigitSum(n))

(* C18: a computeValue call for a step that is not a multiple of the      *)
(* interval returns digitCollapse(computeValue(step - 1) * seed); with    *)
(* seed 7 and interval 100 the values at steps 0, 1, 2, 3 are 7, 4, 1, 7. *)
C18_Recurrence ==
    Called
    => /\ call.step % Interval # 0
          => call.value
                = digitCollapse(
                     computeValue(gens[call.g], call.step - 1).value * Seed)
       /\ (Seed = 7 /\ Interval = 100 /\ call.step <= 3)
          => call.value = <<7, 4, 1, 7>>[call.step + 1]

(* A generator of seed 7 and interval 100 returned 7 for step 3, and had  *)
(* not cached it before.                                                  *)
C18_Witness ==
    /\ Called
    /\ Seed = 7
    /\ Interval = 100
    /\ call.step = 3
    /\ call.value = 7
    /\ ~call.cached

(* C19: two generators constructed independently with one seed and        *)
(* interval return the same value for every step, whatever calls each of  *)
(* them served before: the value a generator with an empty cache yields   *)
(* for (seed, interval, step).                                            *)
C19_Deterministic ==
    /\ \A step \in 0..MaxGenStep :
          /\ computeValue(gens[1], step).value
                = computeValue(gens[2], step).value
          /\ computeValue(gens[1], step).value
                = PatternAt(Seed, Interval, step)
    /\ Called => call.value = PatternAt(Seed, Interval, call.step)

(* The two generators hold different, non-empty sets of steps, and the    *)
(* last call was answered from the cache.                                 *)
C19_Witness ==
    /\ Called
    /\ call.cached
    /\ gens[1].cache # << >>
    /\ gens[2].cache # << >>
    /\ \E k \in DOMAIN gens[1].cache : k \notin DOMAIN gens[2].cache
    /\ \E k \in DOMAIN gens[2].cache : k \notin DOMAIN gens[1].cache

(* C20: a computeValue call leaves every entry the cache already held as  *)
(* it was and leaves the other generator alone; for a step the cache      *)
(* already held it returns the cached value (the one the first call for   *)
(* that step returned), and a call for the same step made right after it  *)
(* returns the same value.                                                *)
C20_Idempotent ==
    [][call'.op = "computeValue"
       => LET g == call'.g
          IN  /\ \A k \in DOMAIN gens[g].cache :
                    /\ k \in DOMAIN gens'[g].cache
                    /\ gens'[g].cache[k] = gens[g].cache[k]
              /\ \A h \in 1..Len(gens) : h # g => gens'[h] = gens[h]
              /\ call'.step \in DOMAIN gens[g].cache
                    => /\ call'.value = gens[g].cache[call'.step]
                       /\ gens'[g] = gens[g]
              /\ gens'[g].cache[call'.step] = call'.value
              /\ computeValue(gens'[g], call'.step).value = call'.value
              /\ computeValue(gens'[g], call'.step).pattern = gens'[g]]_vars

(* A call for a step the cache already held, on a generator that holds    *)
(* other steps as well.                                                   *)
C20_Witness ==
    /\ Called
    /\ call.cached
    /\ \E k \in DOMAIN gens[call.g].cache : k # call.step

(* ------------------- construction and registry claims ------------------ *)
ValidConfig(g) == g.phaseResetInterval > 0

(* C21 as stated: construction with an invalid configuration fails, so no *)
(* generator, Node or Observer with resetInterval <= 0 and no Node with   *)
(* an empty nodeId ever exists, and none is registered in the Network.    *)
C21_InvalidConfigRejected ==
    /\ \A n \in 1..Len(objs) :
          ValidConfig(objs[n].pattern) /\ objs[n].nodeId # EmptyId
    /\ \A i \in 1..Len(nodes) :
          ValidConfig(objs[nodes[i].node].pattern) /\ nodes[i].nodeId # EmptyId
    /\ \A g \in 1..Len(gens) : ValidConfig(gens[g])
    /\ observer.constructed => ValidConfig(observer.pattern)

(* C22: a negative step is rejected and not silently coerced: no observe  *)
(* of a message whose globalStep is below zero classifies it as valid,    *)
(* and no receive of such a message accepts it (emits 'message' for it).  *)
C22_NegativeStepRejected ==
    /\ (reply.op = "observe" /\ reply.message.globalStep < 0)
          => /\ reply.events[1].event # "valid-message"
             /\ \A i \in 1..Len(observer.observedMessages) :
                   observer.observedMessages[i].globalStep >= 0
    /\ \A i \in 1..Len(trace) :
          trace[i].kind = "emit_message" => trace[i].msg.globalStep >= 0

(* --------------------------- MeshObserver claims ----------------------- *)
Observing == reply.op = "observe"

Reporting == reply.op = "getStatistics"

Count(calls, flag) ==
    Cardinality({i \in 1..Len(calls) : calls[i] = flag})

(* C23: every observe call changes exactly one log by exactly one entry.  *)
(* When the message's value equals the value the observer computes for    *)
(* its globalStep, the message is appended to the log of valid messages,  *)
(* the anomalies are left alone and one 'valid-message' event carrying    *)
(* the message is emitted; otherwise one record of type pattern-mismatch  *)
(* with the message, the expected and the received value is appended to   *)
(* the anomalies, the valid messages are left alone and one 'anomaly'     *)
(* event carrying the record is emitted.                                  *)
C23_OneLogOneEntry ==
    [][reply'.op = "observe" =>
        LET message == reply'.message
            expected == computeValue(observer.pattern, message.globalStep).value
            record == [type |-> "pattern-mismatch", message |-> message,
                       expected |-> expected,
                       received |-> message.patternValue]
        IN  /\ Len(reply'.events) = 1
            /\ IF message.patternValue = expected
               THEN /\ observer'.observedMessages =
                          Append(observer.observedMessages, message)
                    /\ observer'.anomalies = observer.anomalies
                    /\ reply'.events[1].event = "valid-message"
                    /\ reply'.events[1].payload = message
               ELSE /\ observer'.anomalies = Append(observer.anomalies, record)
                    /\ observer'.observedMessages = observer.observedMessages
                    /\ reply'.events[1].event = "anomaly"
                    /\ reply'.events[1].payload = record]_vars

(* An observe has just recorded an anomaly beside an earlier valid        *)
(* message.                                                               *)
C23_Witness ==
    /\ Observing
    /\ reply.events[1].event = "anomaly"
    /\ Len(observer.observedMessages) > 0
    /\ Len(observer.anomalies) > 0

(* C24: whatever observe and clearHistory calls came before, getStatistics *)
(* returns totalObserved = validMessages + anomalies, where validMessages *)
(* and anomalies are the numbers of matching and of mismatching observe   *)
(* calls since the last clearHistory (or since construction).             *)
C24_StatisticsConsistent ==
    Reporting =>
        /\ reply.statistics.totalObserved =
              reply.statistics.validMessages + reply.statistics.anomalies
        /\ reply.statistics.validMessages = Count(sent, TRUE)
        /\ reply.statistics.anomalies = Count(sent, FALSE)

(* Statistics taken after a clearHistory, over a matching and two         *)
(* mismatching observe calls made since.                                  *)
C24_Witness ==
    /\ Reporting
    /\ "clearHistory" \in seen
    /\ Count(sent, TRUE) = 1
    /\ Count(sent, FALSE) = 2

(* C25: getStatistics reports successRate 100 whenever totalObserved is   *)
(* 0: for a freshly constructed observer and after clearHistory.          *)
C25_EmptyRateIsHundred ==
    (Reporting /\ reply.statistics.totalObserved = 0)
        => reply.statistics.successRate = Number(100)

(* The doubles next to a positive double x. *)
Above(x) ==
    LET up == Increment(x.m)
    IN  IF Len(up) > Precision
        THEN [m |-> SubSeq(up, 1, Precision), e |-> x.e + 1]
        ELSE [m |-> up, e |-> x.e]

Below(x) ==
    IF \A i \in 2..Precision : x.m[i] = 0
    THEN [m |-> [i \in 1..Precision |-> 1], e |-> x.e - 1]
    ELSE LET last == CHOOSE i \in 1..Precision :
                         x.m[i] = 1 /\ \A j \in (i + 1)..Precision : x.m[j] = 0
         IN  [m |-> [i \in 1..Precision |->
                        IF i < last THEN x.m[i] ELSE IF i = last THEN 0 ELSE 1],
              e |-> x.e]

(* The doubles at most k doubles away from a positive double x. *)
RECURSIVE Within(_, _)
Within(x, k) ==
    IF k = 0 THEN {x}
    ELSE LET nearer == Within(x, k - 1)
         IN  nearer \cup {Above(y) : y \in nearer} \cup {Below(y) : y \in nearer}

PowerOfTwo(n) == \E k \in 0..30 : n = 2^k

(* successRate * totalObserved, as JavaScript computes it *)
RateTimesTotal ==
    Times(reply.statistics.successRate, reply.statistics.totalObserved)

(* C26 as stated: whenever totalObserved > 0, the reported successRate    *)
(* satisfies successRate * totalObserved == validMessages * 100, and one  *)
(* valid message and one anomaly give totalObserved 2 and successRate 50. *)
C26_RateExact ==
    (Reporting /\ reply.statistics.totalObserved > 0) =>
        /\ RateTimesTotal = Number(reply.statistics.validMessages * 100)
        /\ (reply.statistics.validMessages = 1
               /\ reply.statistics.anomalies = 1)
              => /\ reply.statistics.totalObserved = 2
                 /\ reply.statistics.successRate = Number(50)

(* C26, amended: whenever totalObserved > 0, successRate * totalObserved  *)
(* is validMessages * 100 up to rounding, at most three doubles away; it  *)
(* is exactly validMessages * 100 when validMessages is 0 or equals       *)
(* totalObserved, or totalObserved is a power of two.  One valid message  *)
(* and one anomaly give totalObserved 2 and successRate 50.               *)
C26_RateUpToRounding ==
    (Reporting /\ reply.statistics.totalObserved > 0) =>
        LET valid == reply.statistics.validMessages
            total == reply.statistics.totalObserved
            exact == Number(valid * 100)
        IN  /\ IF valid = 0 THEN RateTimesTotal = Zero
               ELSE RateTimesTotal \in Within(exact, 3)
            /\ (valid = total \/ PowerOfTwo(total)) => RateTimesTotal = exact
            /\ (valid = 1 /\ reply.statistics.anomalies = 1)
                  => /\ total = 2
                     /\ reply.statistics.successRate = Number(50)

(* One valid message of three: the rate is rounded and its product with   *)
(* the total is not 100.                                                  *)
C26_Witness ==
    /\ Reporting
    /\ reply.statistics.validMessages = 1
    /\ reply.statistics.totalObserved = 3
    /\ RateTimesTotal # Number(100)
    /\ RateTimesTotal \in Within(Number(100), 1)

(* C27: clearHistory empties the log of valid messages and the log of     *)
(* anomalies and leaves the observer's generator, its cache included, and *)
(* the registered listeners as they were: getStatistics then reports      *)
(* nothing observed, and observe of any message emits what it would have  *)
(* emitted before the clear.                                              *)
C27_ClearKeepsGenerator ==
    [][reply'.op = "clearHistory" =>
        /\ observer'.observedMessages = << >>
        /\ observer'.anomalies = << >>
        /\ observer'.pattern = observer.pattern
        /\ observer'.validListeners = observer.validListeners
        /\ observer'.anomalyListeners = observer.anomalyListeners
        /\ getStatistics(observer').totalObserved = 0
        /\ \A m \in ObservedMessages :
              observe(observer', m).events = observe(observer, m).events]_vars

(* A clearHistory on an observer that has computed values and has a       *)
(* listener of each kind.                                                 *)
C27_Witness ==
    /\ reply.op = "clearHistory"
    /\ observer.pattern.cache # << >>
    /\ observer.validListeners > 0
    /\ observer.anomalyListeners > 0

(* Whether node n's receive of a message accepts it: emits 'message'. *)
Accepts(n, message) ==
    LET w == receive(World, n, message, 0)
    IN  \E i \in 1..Len(w.trace) :
            /\ w.trace[i].kind = "emit_message"
            /\ w.trace[i].node = n
            /\ w.trace[i].msg = message

(* Whether the observer's observe of a message classifies it as valid. *)
Validates(message) ==
    observe(observer, message).events[1].event = "valid-message"

(* C28: the observer replicates a node's validation: for an observer and  *)
(* a node constructed with the same seed and interval, and for every      *)
(* message, observe classifies the message as valid exactly when the      *)
(* node's receive accepts it, whatever either of them processed before    *)
(* and whatever the node's globalStep is.                                 *)
C28_ObserverReplicatesNode ==
    (observer.constructed /\ objs # << >>) =>
        \A m \in ObservedMessages : Validates(m) <=> Accepts(1, m)

(* The two have processed different messages, the node has moved on, and  *)
(* there are messages both accept and messages both refuse.               *)
C28_Witness ==
    /\ observer.constructed
    /\ objs # << >>
    /\ objs[1].globalStep > 0
    /\ Len(observer.anomalies) > 0
    /\ observer.pattern.cache # objs[1].pattern.cache
    /\ \E m \in ObservedMessages : Validates(m) /\ Accepts(1, m)
    /\ \E m \in ObservedMessages : ~Validates(m) /\ ~Accepts(1, m)

(* ------------------------------ registry claims ------------------------ *)
Keys(map) == {map[i].nodeId : i \in 1..Len(map)}

Entries(map, nodeId) == {i \in 1..Len(map) : map[i].nodeId = nodeId}

(* C29: the last registration wins: after createNode(config), and so      *)
(* after a second createNode with the same nodeId, getNode(nodeId)        *)
(* returns the node that call created and the registry holds exactly one  *)
(* entry for the id.  (Only createNode adds a node object.)               *)
C29_LastRegistrationWins ==
    [][Len(objs') = Len(objs) + 1 =>
        LET created == Len(objs')
            nodeId == objs'[created].nodeId
        IN  /\ getNode(nodes', nodeId) = created
            /\ Cardinality(Entries(nodes', nodeId)) = 1]_vars

(* Two nodes were created under one id, and the id leads to the later. *)
C29_Witness ==
    \E first, second \in 1..Len(objs) :
        /\ first < second
        /\ objs[first].nodeId = objs[second].nodeId
        /\ getNode(nodes, objs[second].nodeId) = second
        /\ \A later \in (second + 1)..Len(objs) :
              objs[later].nodeId # objs[second].nodeId

(* C30: removeNode(nodeId) only deletes the registry entry: afterwards    *)
(* getNode(nodeId) is absent, every other id leads to the node it led to  *)
(* before, and the removal calls no receive, emits no event on any node   *)
(* and changes no node, its globalStep included.  (Only removeNode        *)
(* shortens the registry.)                                                *)
C30_RemoveOnlyDeletes ==
    [][Len(nodes') < Len(nodes) =>
        \E nodeId \in Keys(nodes) :
            /\ getNode(nodes', nodeId) = 0
            /\ Keys(nodes') = Keys(nodes) \ {nodeId}
            /\ \A other \in Keys(nodes) \ {nodeId} :
                  /\ getNode(nodes', other) = getNode(nodes, other)
                  /\ Cardinality(Entries(nodes', other)) = 1
            /\ trace' = << >>
            /\ objs' = objs]_vars

(* A node that has moved on was removed while another stays registered:   *)
(* its id leads nowhere, its object is as it was.                         *)
C30_Witness ==
    /\ trace = << >>
    /\ Len(nodes) > 0
    /\ \E n \in 1..Len(objs) :
          /\ getNode(nodes, objs[n].nodeId) = 0
          /\ objs[n].globalStep > 0

(* ------------------------- ordering inside a call ---------------------- *)
(* The receive calls the Network's fan-out makes for the broadcast call   *)
(* entered at i: those made with its message from directly inside it.     *)
FanOut(i) ==
    {k \in (i + 1)..(ExitOf(i) - 1) :
        /\ trace[k].kind = "enter_receive"
        /\ trace[k].val = 1
        /\ trace[k].msg = trace[i + 1].msg
        /\ Depth(k) = Depth(i) + 1}

(* C31 as stated: during the whole fan-out of a broadcast the sender's    *)
(* globalStep equals the message's globalStep (at every event of the      *)
(* sender between the call's entry and its return), and the increment,    *)
(* the call's last step, brings it to the message's globalStep plus 1.    *)
C31_StepHeldDuringFanOut ==
    \A i \in Idx :
        trace[i].kind = "enter_broadcast"
        => /\ \A k \in (i + 1)..(ExitOf(i) - 1) :
                 trace[k].node = trace[i].node
                 => trace[k].step = trace[i + 1].msg.globalStep
           /\ trace[ExitOf(i)].step = trace[i + 1].msg.globalStep + 1

(* C31, amended: broadcast hands the message to the channel before it     *)
(* advances the step: the message is emitted while the sender's           *)
(* globalStep equals the message's, every delivery of the fan-out has     *)
(* returned before the increment, which is the call's last step, and      *)
(* until a call is made on the sender from inside the fan-out the         *)
(* sender's globalStep stays the message's; without such a call it is the *)
(* message's globalStep plus 1 on return.                                 *)
C31_IncrementAfterFanOut ==
    \A i \in Idx :
        trace[i].kind = "enter_broadcast"
        => /\ trace[i + 1].kind = "emit_broadcast"
           /\ trace[i + 1].step = trace[i + 1].msg.globalStep
           /\ \A k \in FanOut(i) : ExitOf(k) < ExitOf(i)
           /\ trace[ExitOf(i)].step = trace[LastBefore(ExitOf(i))].step + 1
           /\ \A k \in Reentries(i) :
                 (\A h \in Reentries(i) : k <= h)
                 => trace[k].step = trace[i + 1].msg.globalStep
           /\ Reentries(i) = {}
                 => trace[ExitOf(i)].step = trace[i + 1].msg.globalStep + 1

(* A broadcast was delivered to two peers, one of which answered from its *)
(* listener with a higher step: the sender left the message's step while  *)
(* its fan-out was still running.                                         *)
C31_Witness ==
    \E i \in Idx :
        /\ trace[i].kind = "enter_broadcast"
        /\ Cardinality(FanOut(i)) > 0
        /\ \E k \in (i + 1)..(ExitOf(i) - 1) :
              /\ trace[k].node = trace[i].node
              /\ trace[k].step > trace[i + 1].msg.globalStep

(* The 'message' event of the receive call entered at i, 0 if the call    *)
(* rejected the message.                                                  *)
MessageEvent(i) ==
    LET E == {k \in OwnEmits(i) : trace[k].kind = "emit_message"}
    IN  IF E = {} THEN 0 ELSE CHOOSE k \in E : TRUE

(* C32: when receive accepts a message whose globalStep is greater than   *)
(* the node's, the 'sync' event carrying the new step is emitted before   *)
(* the 'message' event, and the node's globalStep is the message's when   *)
(* the 'message' event is emitted (and so when its listeners run); when   *)
(* the message's globalStep is not greater, the 'message' event is the    *)
(* only event receive emits and the globalStep is left as it was.         *)
C32_SyncBeforeMessage ==
    \A i \in Idx :
        (trace[i].kind = "enter_receive" /\ MessageEvent(i) # 0)
        => LET m == MessageEvent(i)
               before == {k \in (i + 1)..(m - 1) :
                             trace[k].kind \notin {"enter_sync", "exit_sync"}}
           IN  /\ Cardinality({k \in OwnEmits(i) :
                                  trace[k].kind = "emit_message"}) = 1
               /\ trace[m].msg = trace[i].msg
               /\ \A k \in (i + 1)..(m - 1) : trace[k].node = trace[i].node
               /\ IF trace[i].msg.globalStep > trace[i].step
                  THEN /\ Cardinality(before) = 1
                       /\ \A k \in before :
                             /\ trace[k].kind = "emit_sync"
                             /\ trace[k].val = trace[i].msg.globalStep
                             /\ trace[k].step = trace[i].msg.globalStep
                       /\ trace[m].step = trace[i].msg.globalStep
                  ELSE /\ before = {}
                       /\ trace[m].step = trace[i].step

(* One call in which a node accepted a message from ahead, while another  *)
(* receive accepted a message that was not ahead of its node.             *)
C32_Witness ==
    /\ \E i \in Idx :
          /\ trace[i].kind = "enter_receive"
          /\ MessageEvent(i) # 0
          /\ trace[i].msg.globalStep > trace[i].step
          /\ objs[trace[i].node].replyListeners > 0
    /\ \E i \in Idx :
          /\ trace[i].kind = "enter_receive"
          /\ MessageEvent(i) # 0
          /\ trace[i].msg.globalStep <= trace[i].step

(* ------------------------------ cache claims --------------------------- *)
(* Every entry of a cache is still there, with its value. *)
CacheKept(before, after) ==
    \A k \in DOMAIN before : k \in DOMAIN after /\ after[k] = before[k]

(* Whether a call that validates or builds a message was made on node n   *)
(* during the call whose events are t.                                    *)
ComputedOn(t, n) ==
    \E i \in 1..Len(t) :
        /\ t[i].kind \in {"enter_broadcast", "enter_receive"}
        /\ t[i].node = n

C34_BoundedWork ==
    [][call'.op = "computeValue"
       => LET g == call'.g
              k == call'.step
              added == DOMAIN gens'[g].cache \ DOMAIN gens[g].cache
          IN  /\ call'.work <= k % gens[g].phaseResetInterval
              /\ gens[g].cache = << >>
                    => call'.work = k % gens[g].phaseResetInterval
              /\ k \in DOMAIN gens[g].cache
                    => call'.work = 0 /\ gens'[g] = gens[g]
              /\ Cardinality(added) \in {call'.work, call'.work + 1}
              /\ \A j \in added : j <= k /\ j >= k - call'.work]_vars

(* A call at step 4 under interval 100 stopped at the cached step 3: one  *)
(* collapse, where a first call takes four.                               *)
C34_Witness ==
    /\ Called
    /\ call.work = 1
    /\ call.step = 4
    /\ ~call.cached
    /\ Interval = 100

(* ---------------------- re-entrancy and the registry ------------------- *)
(* C35: no node emits two broadcast messages carrying the same            *)
(* globalStep: of two messages a node emits during one call (its own      *)
(* broadcast and those its onMessage listener makes on it while that      *)
(* broadcast is still being fanned out), the later carries the greater    *)
(* globalStep.                                                            *)
C35_StepsNeverReused ==
    \A i \in Idx : \A j \in Idx :
        (/\ i < j
         /\ trace[i].kind = "emit_broadcast"
         /\ trace[j].kind = "emit_broadcast"
         /\ trace[i].node = trace[j].node)
        => trace[i].msg.globalStep < trace[j].msg.globalStep

(* A node object created by createNode that is no longer in the registry: *)
(* removeNode deleted its id.                                             *)
Removed(n) == objs[n].networked /\ n \notin Registered

(* A node object whose id a later createNode registered again.            *)
Replaced(n) ==
    \E m \in (n + 1)..Len(objs) :
        objs[m].networked /\ objs[m].nodeId = objs[n].nodeId

(* C36: after removeNode(id), or after a duplicate createNode replaced    *)
(* the node registered under id, the Network never again calls receive    *)
(* on the removed or replaced node, whichever node broadcasts.            *)
C36_NoDeliveryAfterRemoval ==
    \A k \in Idx :
        (trace[k].kind = "enter_receive" /\ trace[k].val = 1)
        => ~Removed(trace[k].node) /\ ~Replaced(trace[k].node)

(* A registered node broadcast and reached a peer while a node that was   *)
(* replaced and a node that was removed or replaced looked on.            *)
C36_Witness ==
    /\ \E n \in 1..Len(objs) : Replaced(n)
    /\ \E n \in 1..Len(objs) : Removed(n)
    /\ \E k \in Idx : /\ trace[k].kind = "enter_receive"
                       /\ trace[k].val = 1
                       /\ trace[1].node \in Registered

(* C37: removeNode leaves the Network's subscription on the node: when a  *)
(* node that is no longer in the registry broadcasts, receive is called   *)
(* with its message exactly once on every node registered under another   *)
(* id.                                                                    *)
C37_RemovedNodeStillHeard ==
    \A i \in Idx :
        (trace[i].kind = "enter_broadcast" /\ trace[i].node \notin Registered)
        => \A e \in 1..Len(nodes) :
              nodes[e].nodeId # objs[trace[i].node].nodeId
              => Cardinality({k \in FanOut(i) :
                                 trace[k].node = nodes[e].node}) = 1

(* A node taken out by removeNode (its id was not registered again)       *)
(* broadcast, and a node still registered moved its globalStep forward to *)
(* the message's.                                                         *)
C37_Witness ==
    /\ trace # << >>
    /\ trace[1].kind = "enter_broadcast"
    /\ Removed(trace[1].node)
    /\ ~Replaced(trace[1].node)
    /\ \E k \in FanOut(1) :
          /\ trace[k].node \in Registered
          /\ \E h \in Idx : /\ h > k
                            /\ trace[h].kind = "emit_sync"
                            /\ trace[h].node = trace[k].node
                            /\ trace[h].val = trace[2].msg.globalStep

(* The nodes registered under an id other than the sender's, in the       *)
(* registry as it is when node n calls broadcast.                         *)
PeersAtStart(n) ==
    {nodes[e].node :
        e \in {x \in 1..Len(nodes) : nodes[x].nodeId # objs[n].nodeId}}

(* The nodes on which the fan-out of the call entered at event 1 called   *)
(* receive.                                                               *)
Reached == {trace[k].node : k \in FanOut(1)}

(* The nodes a listener removed with removeNode before the fan-out of the *)
(* call entered at event 1 called receive on them.                        *)
RemovedBeforeTurn ==
    {trace[r].node :
        r \in {x \in Idx :
                  /\ trace[x].kind = "removeNode"
                  /\ \A k \in FanOut(1) :
                        trace[k].node = trace[x].node => k > x}}

(* C38 as stated: the recipients of a broadcast are the other nodes       *)
(* registered when the call began: a node a listener registers during     *)
(* the fan-out does not receive the message in flight, and a node a       *)
(* listener removes during the fan-out before its turn is the only        *)
(* registered peer that misses it.                                        *)
C38_RecipientsFixedAtStart ==
    [][(trace' # << >> /\ trace'[1].kind = "enter_broadcast")
       => /\ Reached' \subseteq PeersAtStart(trace'[1].node)
          /\ PeersAtStart(trace'[1].node) \ Reached'
                = PeersAtStart(trace'[1].node) \cap RemovedBeforeTurn']_vars

(* ----------------------- the sequence as a function -------------------- *)
(* C39: the sequence has period resetInterval: whatever a generator has   *)
(* computed and cached so far, computeValue(step) for a step >= 0 returns *)
(* what computeValue(step mod resetInterval) returns, and the value for   *)
(* step s is the value for step s + resetInterval.                        *)
C39_Periodic ==
    \A g \in 1..Len(gens) :
        \A step \in 0..MaxGenStep :
            /\ computeValue(gens[g], step).value
                  = computeValue(gens[g],
                                 step % gens[g].phaseResetInterval).value
            /\ step + gens[g].phaseResetInterval <= MaxGenStep
                  => computeValue(gens[g], step).value
                       = computeValue(gens[g],
                                      step + gens[g].phaseResetInterval).value

(* A call for the step after a reset, one period later, computed (not     *)
(* read from the cache) the value of step 1, which is not the seed.       *)
C39_Witness ==
    /\ Called
    /\ call.step = Interval + 1
    /\ ~call.cached
    /\ 1 \in DOMAIN gens[call.g].cache
    /\ call.value = gens[call.g].cache[1]
    /\ call.value # Seed

(* computeValue without its cache: the recursive definition alone. *)
RECURSIVE Unmemoized(_, _, _)
Unmemoized(seed, resetInterval, step) ==
    IF step % resetInterval = 0
    THEN seed
    ELSE collapseDigits(Unmemoized(seed, resetInterval, step - 1) * seed)

(* C40: memoization is transparent: in any order of computeValue calls on *)
(* steps >= 0 and clearCache calls, each computeValue call returns what   *)
(* the recursive definition without a cache yields for its step, and      *)
(* every entry in a cache is that value for its key.                      *)
C40_MemoizationTransparent ==
    /\ Called
          => call.value
                = Unmemoized(gens[call.g].seed,
                             gens[call.g].phaseResetInterval, call.step)
    /\ \A g \in 1..Len(gens) :
          \A k \in DOMAIN gens[g].cache :
              gens[g].cache[k]
                 = Unmemoized(gens[g].seed, gens[g].phaseResetInterval, k)

(* A call that was answered from the cache of a generator whose cache     *)
(* lacks an earlier step (it was cleared since that step was computed, or *)
(* the step lies before a reset) and whose value is not the seed.         *)
C40_Witness ==
    /\ Called
    /\ call.cached
    /\ call.value # Seed
    /\ \E k \in 0..(call.step - 1) : k \notin DOMAIN gens[call.g].cache


=============================================================================
